---- MODULE Spec2Model ----
(***************************************************************************)
(* Model of the link-injection engine of BlogAutomationEngine              *)
(* (src/automation_engine.py): inject_internal_links and                   *)
(* inject_external_links, with the link tables that setup_configurations   *)
(* builds and that BlogAutomationGUI.save_configuration may replace, and   *)
(* of its SEO metadata and publishing operations: the metadata payloads of *)
(* the two plugin versions, the configuration gate, the metadata update    *)
(* with retries, generate_seo_title_and_meta and                           *)
(* post_to_wordpress_with_seo.                                             *)
(*                                                                         *)
(* Text is modelled as TLA+ strings, character by character: the regular   *)
(* expressions of the code are evaluated position by position.             *)
(***************************************************************************)
EXTENDS Integers, Sequences, FiniteSets, TLC

VARIABLES INTERNAL_LINKS, EXTERNAL_LINKS, last, prev

\* the engine's configuration dict and the record of the latest SEO or
\* publishing operation
VARIABLES config, seo_call

\* the window (the fields of BlogAutomationGUI the automation reads and
\* writes), the automation thread (its position and its locals), the articles
\* it has handed to process_single_article, the locals of the
\* process_single_article that has just returned, and the set stored in
\* posted_links.json
VARIABLES gui, run, handed, article, posted_links_file

\* the calls of inject_internal_links and inject_external_links that are in
\* progress, one frame of locals for each thread that may be inside one
VARIABLES calls

linkVars == <<INTERNAL_LINKS, EXTERNAL_LINKS, last, prev, calls>>

seoVars == <<config, seo_call>>

runVars == <<gui, run, handed, article, posted_links_file>>

vars ==
  <<INTERNAL_LINKS, EXTERNAL_LINKS, last, prev, config, seo_call,
    gui, run, handed, article, posted_links_file, calls>>

(***************************************************************************)
(* Characters and the character classes of Python's re module (ASCII).     *)
(***************************************************************************)
LowerOf ==
  ("A" :> "a") @@ ("B" :> "b") @@ ("C" :> "c") @@ ("D" :> "d") @@
  ("E" :> "e") @@ ("F" :> "f") @@ ("G" :> "g") @@ ("H" :> "h") @@
  ("I" :> "i") @@ ("J" :> "j") @@ ("K" :> "k") @@ ("L" :> "l") @@
  ("M" :> "m") @@ ("N" :> "n") @@ ("O" :> "o") @@ ("P" :> "p") @@
  ("Q" :> "q") @@ ("R" :> "r") @@ ("S" :> "s") @@ ("T" :> "t") @@
  ("U" :> "u") @@ ("V" :> "v") @@ ("W" :> "w") @@ ("X" :> "x") @@
  ("Y" :> "y") @@ ("Z" :> "z")

\* the characters that have a lowercase form
UpperChars == DOMAIN LowerOf

\* the characters \w matches: letters, digits and the underscore
WordChars ==
  UpperChars
  \cup {LowerOf[c] : c \in UpperChars}
  \cup {"0", "1", "2", "3", "4", "5", "6", "7", "8", "9", "_"}

\* the Python slice s[a-1:b]: characters a..b, clamped to the string
Slice(s, a, b) ==
  LET lo == IF a < 1 THEN 1 ELSE a
      hi == IF b > Len(s) THEN Len(s) ELSE b
  IN  IF lo > hi THEN "" ELSE SubSeq(s, lo, hi)

\* s[i] as a one-character string, "" outside the string
At(s, i) == IF i >= 1 /\ i <= Len(s) THEN SubSeq(s, i, i) ELSE ""

LowerChar(c) == IF c \in UpperChars THEN LowerOf[c] ELSE c

RECURSIVE Lower(_)
\* str.lower()
Lower(s) ==
  IF Len(s) <= 1 THEN LowerChar(s)
  ELSE LET half == Len(s) \div 2
       IN  Lower(SubSeq(s, 1, half)) \o Lower(SubSeq(s, half + 1, Len(s)))

\* the lowercased characters of s, as a tuple: two texts are equal under
\* re.IGNORECASE exactly when their folds are equal
Fold(s) == [i \in 1..Len(s) |-> LowerChar(SubSeq(s, i, i))]

\* str.startswith(prefix)
StartsWith(s, prefix) == Slice(s, 1, Len(prefix)) = prefix

\* s.lower().startswith(prefix)
LowerStartsWith(s, prefix) == Lower(Slice(s, 1, Len(prefix))) = prefix

\* \b at the position between s[i-1] and s[i]
WordBoundary(s, i) == (At(s, i - 1) \in WordChars) # (At(s, i) \in WordChars)

\* the least element of a non-empty set of integers
Least(S) == CHOOSE i \in S : \A j \in S : i <= j

\* the least element of a set of positive integers, 0 when it is empty
LeastOrZero(S) == IF S = {} THEN 0 ELSE Least(S)

\* the first index >= from at which pat occurs in s, 0 when there is none
\* (s and pat both strings, or both folds)
IndexFrom(s, pat, from) ==
  LeastOrZero({i \in from..(Len(s) - Len(pat) + 1) : SubSeq(s, i, i + Len(pat) - 1) = pat})

(***************************************************************************)
(* Link tables.  A dict is a sequence of <<key, value>> pairs in           *)
(* insertion order (Python dicts iterate in insertion order).              *)
(***************************************************************************)

\* self.INTERNAL_LINKS as setup_configurations builds it
DefaultInternalLinks ==
  << <<"Latest News", "https://premierleaguenewsnow.com/category/premier-league-football-news-now/">>,
     <<"Academy", "https://premierleaguenewsnow.com/category/premier-league-football-news-now/academy/">>,
     <<"Analysis", "https://premierleaguenewsnow.com/category/premier-league-football-news-now/analysis/">>,
     <<"Champions League", "https://premierleaguenewsnow.com/category/premier-league-football-news-now/champions-league/">>,
     <<"Europa League", "https://premierleaguenewsnow.com/category/premier-league-football-news-now/europa-league/">>,
     <<"Exclusive", "https://premierleaguenewsnow.com/category/premier-league-football-news-now/exclusive/">>,
     <<"FA Cup", "https://premierleaguenewsnow.com/category/premier-league-football-news-now/fa-cup/">>,
     <<"Fantasy Premier League", "https://premierleaguenewsnow.com/category/premier-league-football-news-now/fantasy-premier-league-fpl/">>,
     <<"Injury News", "https://premierleaguenewsnow.com/category/premier-league-football-news-now/premier-league-injury-news/">>,
     <<"International", "https://premierleaguenewsnow.com/category/premier-league-football-news-now/international/">>,
     <<"League Cup", "https://premierleaguenewsnow.com/category/premier-league-football-news-now/football-league-cup/">>,
     <<"Loan Watch", "https://premierleaguenewsnow.com/category/premier-league-football-news-now/loan-watch/">>,
     <<"Match Preview", "https://premierleaguenewsnow.com/category/premier-league-football-news-now/match-preview/">>,
     <<"Match Report", "https://premierleaguenewsnow.com/category/premier-league-football-news-now/match-report/">>,
     <<"Player Profile", "https://premierleaguenewsnow.com/category/premier-league-football-news-now/player-profile/">>,
     <<"Premier League Derbies", "https://premierleaguenewsnow.com/category/premier-league-football-news-now/premier-league-derbies/">>,
     <<"Transfer News", "https://premierleaguenewsnow.com/category/premier-league-football-news-now/premier-league-transfer-news-rumours/">>,
     <<"Liverpool", "https://premierleaguenewsnow.com/tag/liverpool-news-now/">>,
     <<"Arsenal", "https://premierleaguenewsnow.com/tag/arsenal-news-now/">>,
     <<"Manchester United", "https://premierleaguenewsnow.com/tag/manchester-united-news-now/">>,
     <<"Manchester City", "https://premierleaguenewsnow.com/tag/manchester-city-news-now/">>,
     <<"Tottenham", "https://premierleaguenewsnow.com/tag/tottenham-hotspur-news-now/">>,
     <<"Chelsea", "https://premierleaguenewsnow.com/tag/chelsea-news-now/">>,
     <<"West Ham", "https://premierleaguenewsnow.com/tag/west-ham-united-news-now/">>,
     <<"Wolves", "https://premierleaguenewsnow.com/tag/wolverhampton-wanderers-news-now/">>,
     <<"Newcastle United", "https://premierleaguenewsnow.com/tag/newcastle-united-news-now/">>,
     <<"Leicester City", "https://premierleaguenewsnow.com/tag/leicester-city-news-now/">>,
     <<"Aston Villa", "https://premierleaguenewsnow.com/tag/aston-villa-news-now/">>,
     <<"Brighton", "https://premierleaguenewsnow.com/tag/brighton-hove-albion-news-now/">>,
     <<"Crystal Palace", "https://premierleaguenewsnow.com/tag/crystal-palace-news-now/">>,
     <<"Brentford", "https://premierleaguenewsnow.com/tag/brentford-news-now/">> >>

\* self.EXTERNAL_LINKS as setup_configurations builds it
DefaultExternalLinks ==
  << <<"premier league", "https://www.premierleague.com/">>,
     <<"leeds united", "https://unitedleeds.com/">>,
     <<"tottenham", "https://tottenhaminsight.com/">>,
     <<"tottenham hotspur", "https://tottenhaminsight.com/">>,
     <<"spurs", "https://tottenhaminsight.com/">>,
     <<"stats", "https://fbref.com/en/">>,
     <<"transfer news", "https://www.transfermarkt.com/">>,
     <<"transfer update", "https://www.transfermarkt.com/">> >>

\* self.DO_FOLLOW_URLS
DO_FOLLOW_URLS == {"https://tottenhaminsight.com/", "https://unitedleeds.com/"}

\* (a variant that returns the first part only)
JoinFirst(parts) == IF parts = << >> THEN "" ELSE Head(parts)

RECURSIVE Join(_)
\* "".join(parts)
Join(parts) == IF parts = << >> THEN "" ELSE Head(parts) \o Join(Tail(parts))

(***************************************************************************)
(* inject_internal_links                                                   *)
(***************************************************************************)
\* the end of a block whose closing tag, n + 1 characters long, starts at q;
\* 0 when the closing tag was not found (q = 0)
BlockEnd(q, n) == IF q = 0 THEN 0 ELSE q + n

\* end of the match of <h3>.*?</h3> (re.DOTALL) that starts at p, 0 if none
H3BlockEnd(s, p) ==
  IF Slice(s, p, p + 3) = "<h3>" THEN BlockEnd(IndexFrom(s, "</h3>", p + 4), 4) ELSE 0

RECURSIVE SplitInternal(_)
\* re.split cuts at the leftmost block, which starts at p (p = 0: no block
\* is left), and goes on after it
SplitInternalAt(content, p) ==
  IF p = 0 THEN <<content>>
  ELSE <<Slice(content, 1, p - 1), Slice(content, p, H3BlockEnd(content, p))>>
         \o SplitInternal(Slice(content, H3BlockEnd(content, p) + 1, Len(content)))

\* re.split(r'(<h3>.*?</h3>)', content, flags=re.DOTALL)
SplitInternal(content) ==
  SplitInternalAt(content, LeastOrZero({p \in 1..Len(content) : H3BlockEnd(content, p) > 0}))

\* (a variant that rewrites the heading parts too)
InternalSkipsNothing(part) == FALSE

\* if part.startswith("<h3>"): continue
InternalSkipsPart(part) == StartsWith(part, "<h3>")

\* (a variant that forgets the consumed phrases)
InternalConsumedNever(low_key, linked_keys) == FALSE

\* if low_key in linked_keys: continue
InternalConsumed(low_key, linked_keys) == low_key \in linked_keys

\* what the loop over the keys derives from each entry of the table, in
\* table order: low_key = key.lower(), and the pattern compiled from
\* re.escape(key) under re.IGNORECASE, i.e. the key taken literally, folded
InternalEntries(table) ==
  [j \in 1..Len(table) |->
     [key |-> table[j][1], url |-> table[j][2],
      low_key |-> Lower(table[j][1]), pattern |-> Fold(table[j][1])]]

\* the text a lookbehind of the internal pattern rejects, folded
FoldedHref == Fold("href=\"")

\* the positions at which (?<!href=")\bKEY\b matches in text, pattern being
\* the folded KEY and low being Fold(text)
InternalMatches(text, low, pattern) ==
  {i \in 1..(Len(text) - Len(pattern) + 1) :
     /\ SubSeq(low, i, i + Len(pattern) - 1) = pattern
     /\ WordBoundary(text, i)
     /\ WordBoundary(text, i + Len(pattern))
     /\ ~(i > 6 /\ SubSeq(low, i - 6, i - 1) = FoldedHref)}

\* (a variant that writes the matched text in lowercase)
InternalAnchorLowered(url, m) == "<a href=\"" \o url \o "\">" \o Lower(m) \o "</a>"

\* repl(m): the anchor that replaces the matched text m.group(0)
InternalAnchor(url, m) == "<a href=\"" \o url \o "\">" \o m \o "</a>"

\* (a variant that moves the anchor to the end of the text)
SubstitutedAtEnd(text, i, n, anchor) ==
  Slice(text, 1, i - 1) \o Slice(text, i + n, Len(text)) \o anchor

\* text with the n characters from position i on replaced by anchor
Substituted(text, i, n, anchor) ==
  Slice(text, 1, i - 1) \o anchor \o Slice(text, i + n, Len(text))

RECURSIVE InternalKeys(_, _, _, _, _, _)
\* the loop over the keys entered at entry j with current_part_modified =
\* text (its fold is computed once)
InternalKeysOver(entries, j, text, linked_keys, anchors) ==
  InternalKeys(entries, j, text, Fold(text), linked_keys, anchors)

\* new_part, count = pattern.subn(repl, current_part_modified, count=1) for
\* entry j, and the rest of the loop: i is the position of the leftmost
\* match, 0 when count = 0
InternalSubn(entries, j, text, low, linked_keys, anchors, i) ==
  IF i = 0 THEN InternalKeys(entries, j + 1, text, low, linked_keys, anchors)
  ELSE InternalKeysOver(
         entries, j + 1,
         Substituted(text, i, Len(entries[j].key),
                     InternalAnchor(entries[j].url,
                                    Slice(text, i, i + Len(entries[j].key) - 1))),
         linked_keys \cup {entries[j].low_key},
         Append(anchors, InternalAnchor(entries[j].url,
                                        Slice(text, i, i + Len(entries[j].key) - 1))))

\* for key, url in self.INTERNAL_LINKS.items(): ..., from entry j on, over
\* current_part_modified = text, low being Fold(text); anchors is the
\* sequence of the strings repl() has returned so far
InternalKeys(entries, j, text, low, linked_keys, anchors) ==
  IF j > Len(entries) THEN [text |-> text, linked |-> linked_keys, anchors |-> anchors]
  ELSE IF InternalConsumed(entries[j].low_key, linked_keys)
       THEN InternalKeys(entries, j + 1, text, low, linked_keys, anchors)
       ELSE InternalSubn(entries, j, text, low, linked_keys, anchors,
                         LeastOrZero(InternalMatches(text, low, entries[j].pattern)))

RECURSIVE InternalParts(_, _, _, _, _)
\* parts[i] = current_part_modified, and the rest of the loop over the
\* parts; r is what the loop over the keys has left
InternalPartDone(entries, parts, i, r) ==
  InternalParts(entries, [parts EXCEPT ![i] = r.text], i + 1, r.linked, r.anchors)

\* for i, part in enumerate(parts): ..., from part i on
InternalParts(entries, parts, i, linked_keys, anchors) ==
  IF i > Len(parts) THEN [parts |-> parts, linked |-> linked_keys, anchors |-> anchors]
  ELSE IF InternalSkipsPart(parts[i])
       THEN InternalParts(entries, parts, i + 1, linked_keys, anchors)
       ELSE InternalPartDone(entries, parts, i,
                             InternalKeysOver(entries, 1, parts[i], linked_keys, anchors))

\* what a call has produced: the returned string "".join(parts), the set
\* whose size is logged, and the anchors the replacement function returned,
\* in call order
Returned(r) == [result |-> Join(r.parts), linked |-> r.linked, anchors |-> r.anchors]

\* inject_internal_links(content) with self.INTERNAL_LINKS = table
inject_internal_links(table, content) ==
  Returned(InternalParts(InternalEntries(table), SplitInternal(content), 1, {}, << >>))

(***************************************************************************)
(* inject_external_links                                                   *)
(***************************************************************************)
\* the tags of the external split pattern, folded
FoldedTags ==
  [h3 |-> Fold("<h3>"), h3_end |-> Fold("</h3>"), a |-> Fold("<a"), a_end |-> Fold("</a>")]

\* the first of two block ends that is one (h: as a heading, a: as an anchor)
FirstAlternative(h, a) == IF h > 0 THEN h ELSE a

\* end of the match of (<h3>.*?</h3>|<a.*?</a>) (re.IGNORECASE | re.DOTALL)
\* that starts at p, 0 if none; low is Fold(content)
ExternalBlockEnd(low, p) ==
  FirstAlternative(
    IF Slice(low, p, p + 3) = FoldedTags.h3
    THEN BlockEnd(IndexFrom(low, FoldedTags.h3_end, p + 4), 4) ELSE 0,
    IF Slice(low, p, p + 1) = FoldedTags.a
    THEN BlockEnd(IndexFrom(low, FoldedTags.a_end, p + 2), 3) ELSE 0)

RECURSIVE SplitExternal(_)
\* re.split cuts at the leftmost block, which starts at p (p = 0: no block
\* is left), and goes on after it
SplitExternalAt(content, low, p) ==
  IF p = 0 THEN <<content>>
  ELSE <<Slice(content, 1, p - 1), Slice(content, p, ExternalBlockEnd(low, p))>>
         \o SplitExternal(Slice(content, ExternalBlockEnd(low, p) + 1, Len(content)))

\* the split of content, low being Fold(content)
SplitExternalFolded(content, low) ==
  SplitExternalAt(content, low,
                  LeastOrZero({p \in 1..Len(content) : ExternalBlockEnd(low, p) > 0}))

\* re.split(r'(<h3>.*?</h3>|<a.*?</a>)', content, flags=re.IGNORECASE | re.DOTALL)
SplitExternal(content) == SplitExternalFolded(content, Fold(content))

\* (a variant that protects the headings only)
ExternalSkipsHeadings(segment) == LowerStartsWith(segment, "<h3>")

\* if segment.lower().startswith("<h3>") or segment.lower().startswith("<a"): continue
ExternalSkipsSegment(segment) ==
  LowerStartsWith(segment, "<h3>") \/ LowerStartsWith(segment, "<a")

\* (a variant that forgets the consumed URLs)
ExternalConsumedNever(url, linked_urls) == FALSE

\* if url in linked_urls: continue
ExternalConsumed(url, linked_urls) == url \in linked_urls

\* what the loop over the phrases derives from each entry of the table, in
\* table order: the pattern compiled from re.escape(phrase) under
\* re.IGNORECASE, i.e. the phrase taken literally, folded
ExternalEntries(table) ==
  [j \in 1..Len(table) |->
     [phrase |-> table[j][1], url |-> table[j][2], pattern |-> Fold(table[j][1])]]

\* the positions at which \b(PHRASE)\b matches in text, pattern being the
\* folded PHRASE and low being Fold(text)
ExternalMatches(text, low, pattern) ==
  {i \in 1..(Len(text) - Len(pattern) + 1) :
     /\ SubSeq(low, i, i + Len(pattern) - 1) = pattern
     /\ WordBoundary(text, i)
     /\ WordBoundary(text, i + Len(pattern))}

\* (a variant that marks every link nofollow)
RelAttrNoFollow(url) == "nofollow noopener"

\* rel_attr = "noopener" if url in self.DO_FOLLOW_URLS else "nofollow noopener"
RelAttr(url) == IF url \in DO_FOLLOW_URLS THEN "noopener" ELSE "nofollow noopener"

\* _replacer(match): the anchor that replaces the matched text match.group(1)
ExternalAnchor(url, m) ==
  "<a href=\"" \o url \o "\" target=\"_blank\" rel=\"" \o RelAttr(url) \o "\">" \o m \o "</a>"

RECURSIVE ExternalPhrases(_, _, _, _, _, _)
\* the loop over the phrases entered at entry j with
\* current_segment_modified = text (its fold is computed once)
ExternalPhrasesOver(entries, j, text, linked_urls, anchors) ==
  ExternalPhrases(entries, j, text, Fold(text), linked_urls, anchors)

\* new_segment, count = pattern.subn(_replacer, current_segment_modified,
\* count=1) for entry j, and the rest of the loop: i is the position of the
\* leftmost match, 0 when count = 0
ExternalSubn(entries, j, text, low, linked_urls, anchors, i) ==
  IF i = 0 THEN ExternalPhrases(entries, j + 1, text, low, linked_urls, anchors)
  ELSE ExternalPhrasesOver(
         entries, j + 1,
         Substituted(text, i, Len(entries[j].phrase),
                     ExternalAnchor(entries[j].url,
                                    Slice(text, i, i + Len(entries[j].phrase) - 1))),
         linked_urls \cup {entries[j].url},
         Append(anchors, ExternalAnchor(entries[j].url,
                                        Slice(text, i, i + Len(entries[j].phrase) - 1))))

\* for phrase, url in self.EXTERNAL_LINKS.items(): ..., from entry j on,
\* over current_segment_modified = text, low being Fold(text); anchors is
\* the sequence of the strings _replacer() has returned so far
ExternalPhrases(entries, j, text, low, linked_urls, anchors) ==
  IF j > Len(entries) THEN [text |-> text, linked |-> linked_urls, anchors |-> anchors]
  ELSE IF ExternalConsumed(entries[j].url, linked_urls)
       THEN ExternalPhrases(entries, j + 1, text, low, linked_urls, anchors)
       ELSE ExternalSubn(entries, j, text, low, linked_urls, anchors,
                         LeastOrZero(ExternalMatches(text, low, entries[j].pattern)))

RECURSIVE ExternalSegments(_, _, _, _, _)
\* segments[i] = current_segment_modified, and the rest of the loop over the
\* segments; r is what the loop over the phrases has left
ExternalSegmentDone(entries, segments, i, r) ==
  ExternalSegments(entries, [segments EXCEPT ![i] = r.text], i + 1, r.linked, r.anchors)

\* for i, segment in enumerate(segments): ..., from segment i on
ExternalSegments(entries, segments, i, linked_urls, anchors) ==
  IF i > Len(segments) THEN [parts |-> segments, linked |-> linked_urls, anchors |-> anchors]
  ELSE IF ExternalSkipsSegment(segments[i])
       THEN ExternalSegments(entries, segments, i + 1, linked_urls, anchors)
       ELSE ExternalSegmentDone(entries, segments, i,
                                ExternalPhrasesOver(entries, 1, segments[i], linked_urls, anchors))

\* inject_external_links(content) with self.EXTERNAL_LINKS = table
inject_external_links(table, content) ==
  Returned(ExternalSegments(ExternalEntries(table), SplitExternal(content), 1, {}, << >>))

(***************************************************************************)
(* Configurations and article contents the model explores.                 *)
(***************************************************************************)
\* an internal table a user may save: a second, longer phrase is added
UserInternalLinks ==
  << <<"Tottenham", "https://premierleaguenewsnow.com/tag/tottenham-hotspur-news-now/">>,
     <<"Tottenham Hotspur", "https://premierleaguenewsnow.com/tag/spurs/">> >>

\* an external table a user may save: the longer phrase comes first and the
\* two phrases have different destinations
UserExternalLinks ==
  << <<"tottenham hotspur", "https://www.tottenhamhotspur.com/">>,
     <<"tottenham", "https://tottenhaminsight.com/">>,
     <<"spurs", "https://tottenhaminsight.com/">> >>

\* the JSON dicts save_configuration may read from the two text widgets
Configurations ==
  { [internal |-> DefaultInternalLinks, external |-> DefaultExternalLinks,
     max_articles |-> 2],
    [internal |-> UserInternalLinks, external |-> UserExternalLinks,
     max_articles |-> 1],
    [internal |-> << >>, external |-> << >>, max_articles |-> 2] }

\* fragments of article HTML: a phrase in capitals, a longer phrase that
\* holds it, set between spaces, a heading, an existing anchor, and
\* unbalanced markup
Pieces ==
  { "TOTTENHAM", " Tottenham Hotspur ",
    "<h3>Tottenham</h3>", "<a href=\"/tottenham\">Spurs</a>",
    "<h3>", "href=\"" }

MaxPieces == 3

RECURSIVE ContentsOf(_)
\* every concatenation of at most n pieces
ContentsOf(n) ==
  IF n = 0 THEN {""}
  ELSE LET shorter == ContentsOf(n - 1)
       IN  shorter \cup {c \o p : c \in shorter, p \in Pieces}

Contents == ContentsOf(MaxPieces)

(***************************************************************************)
(* The engine's configuration: a Python dict, a function from the keys it  *)
(* holds to their values.                                                  *)
(***************************************************************************)
\* dict.get(key, default)
Get(dict, key, default) == IF key \in DOMAIN dict THEN dict[key] ELSE default

\* get_default_config: the keys the publishing operations read
DefaultConfig ==
  [wp_base_url |-> "https://premierleaguenewsnow.com/wp-json/wp/v2",
   wp_username |-> "",
   wp_password |-> "",
   gemini_api_key |-> ""]

\* no SEO or publishing operation has been made on the engine
NoSeoCall == [op |-> "none"]

(***************************************************************************)
(* State machine.  INTERNAL_LINKS and EXTERNAL_LINKS are the engine's      *)
(* tables.  One article is followed at a time: last records the latest     *)
(* injection call made for it under the current tables, and prev the call  *)
(* whose result was the argument of last, if any.                          *)
(***************************************************************************)
NoCall == [op |-> "none", content |-> "", result |-> "", linked |-> {}, anchors |-> << >>]

\* no thread is inside inject_internal_links or inject_external_links: the
\* frame of each of the two threads holds no locals
NoCalls ==
  [t \in 1 .. 2 |->
     [pc |-> "idle", op |-> "none", content |-> "", parts |-> << >>, i |-> 0,
      linked |-> {}, anchors |-> << >>, result |-> ""]]

\* BlogAutomationGUI.__init__: the fields of the window, its two buttons
\* (TRUE for tk.NORMAL) and the message box start_automation showed last
NewGui ==
  [automation_engine |-> FALSE,
   is_running |-> FALSE,
   stop_requested |-> FALSE,
   processed_count |-> 0,
   total_articles |-> 0,
   max_articles_var |-> 2,
   force_processing_var |-> FALSE,
   start_btn |-> TRUE,
   stop_btn |-> FALSE,
   shown |-> "none"]

\* no automation thread has been started
NoRun ==
  [pc |-> "none", article_links |-> << >>, process_links |-> << >>,
   loaded |-> {}, posted_links |-> {}, force_processing |-> FALSE, i |-> 0]

\* no article has been processed
NoArticle ==
  [steps |-> << >>, paraphrased_title |-> "", paraphrased_content |-> "",
   seo |-> [seo_title |-> "", meta_description |-> ""],
   sent |-> << >>, success |-> FALSE]

Init ==
  /\ INTERNAL_LINKS = DefaultInternalLinks
  /\ EXTERNAL_LINKS = DefaultExternalLinks
  /\ last = NoCall
  /\ prev = NoCall
  /\ config = DefaultConfig
  /\ seo_call = NoSeoCall
  /\ gui = [NewGui EXCEPT !.automation_engine = TRUE]
  /\ run = NoRun
  /\ handed = << >>
  /\ article = NoArticle
  /\ posted_links_file = {}
  /\ calls = NoCalls

\* save_configuration: both tables of the engine are replaced by the parsed
\* JSON dicts (with no engine the assignment raises and is logged as invalid
\* JSON) and max_articles_var is set from the saved config; the records made
\* under the old tables are dropped
SaveConfiguration(cfg) ==
  /\ INTERNAL_LINKS' = IF gui.automation_engine THEN cfg.internal ELSE INTERNAL_LINKS
  /\ EXTERNAL_LINKS' = IF gui.automation_engine THEN cfg.external ELSE EXTERNAL_LINKS
  /\ last' = NoCall
  /\ prev' = NoCall
  /\ gui' = [gui EXCEPT !.max_articles_var = cfg.max_articles]
  /\ article' = NoArticle
  /\ UNCHANGED <<run, handed, posted_links_file>>
  /\ UNCHANGED seoVars
  /\ UNCHANGED calls

\* the record of a call op(content) that produced r
Call(op, content, r) ==
  [op |-> op, content |-> content, result |-> r.result,
   linked |-> r.linked, anchors |-> r.anchors]

\* inject_internal_links(content) on a fresh article
InjectInternal(content) ==
  /\ last = NoCall
  /\ last' = Call("internal", content, inject_internal_links(INTERNAL_LINKS, content))
  /\ prev' = NoCall
  /\ UNCHANGED <<INTERNAL_LINKS, EXTERNAL_LINKS>>
  /\ UNCHANGED seoVars
  /\ UNCHANGED calls
  /\ UNCHANGED runVars

\* inject_external_links(content) on a fresh article
InjectExternal(content) ==
  /\ last = NoCall
  /\ last' = Call("external", content, inject_external_links(EXTERNAL_LINKS, content))
  /\ prev' = NoCall
  /\ UNCHANGED <<INTERNAL_LINKS, EXTERNAL_LINKS>>
  /\ UNCHANGED seoVars
  /\ UNCHANGED calls
  /\ UNCHANGED runVars

\* inject_internal_links run again on its own output
InjectInternalAgain ==
  /\ last.op = "internal"
  /\ prev = NoCall
  /\ last' = Call("internal", last.result, inject_internal_links(INTERNAL_LINKS, last.result))
  /\ prev' = last
  /\ UNCHANGED <<INTERNAL_LINKS, EXTERNAL_LINKS>>
  /\ UNCHANGED seoVars
  /\ UNCHANGED calls
  /\ UNCHANGED runVars

\* process_single_article: inject_external_links(internal_linked)
InjectExternalAfterInternal ==
  /\ last.op = "internal"
  /\ prev = NoCall
  /\ last' = Call("external", last.result, inject_external_links(EXTERNAL_LINKS, last.result))
  /\ prev' = last
  /\ UNCHANGED <<INTERNAL_LINKS, EXTERNAL_LINKS>>
  /\ UNCHANGED seoVars
  /\ UNCHANGED calls
  /\ UNCHANGED runVars

\* the article is finished with; the next one starts from a clean record
NextArticle ==
  /\ last # NoCall
  /\ last' = NoCall
  /\ prev' = NoCall
  /\ UNCHANGED <<INTERNAL_LINKS, EXTERNAL_LINKS>>
  /\ UNCHANGED seoVars
  /\ UNCHANGED calls
  /\ UNCHANGED runVars

Next ==
  \/ \E cfg \in Configurations : SaveConfiguration(cfg)
  \/ \E content \in Contents : InjectInternal(content)
  \/ \E content \in Contents : InjectExternal(content)
  \/ InjectInternalAgain
  \/ InjectExternalAfterInternal
  \/ NextArticle

Spec == Init /\ [][Next]_vars

(***************************************************************************)
(* The two passes as calls that threads are inside of.  A call works on    *)
(* its locals only (linked_keys / linked_urls, parts / segments, the loop  *)
(* index) and reads the tables of the engine; a thread may be switched out *)
(* between any two parts.                                                  *)
(***************************************************************************)
\* article HTML the threads are handed: each has several parts and the
\* phrases of one are phrases of the others
CallContents ==
  { "TOTTENHAM<h3>Tottenham</h3> Tottenham Hotspur ",
    " Tottenham Hotspur <a href=\"/tottenham\">Spurs</a>TOTTENHAM",
    "<h3>Spurs</h3>Tottenham stats" }

\* the engine carries the tables of some saved configuration and no thread
\* is inside a call
CallInit ==
  /\ \E cfg \in Configurations :
       /\ INTERNAL_LINKS = cfg.internal
       /\ EXTERNAL_LINKS = cfg.external
  /\ last = NoCall
  /\ prev = NoCall
  /\ config = DefaultConfig
  /\ seo_call = NoSeoCall
  /\ gui = [NewGui EXCEPT !.automation_engine = TRUE]
  /\ run = NoRun
  /\ handed = << >>
  /\ article = NoArticle
  /\ posted_links_file = {}
  /\ calls = NoCalls

\* a variant in which the set of consumed phrases is kept on the engine: a
\* call starts with what the calls of its kind have consumed
EnterCallKeepingConsumed(t, op, content) ==
  /\ calls[t].pc \in {"idle", "returned"}
  /\ calls' = [calls EXCEPT ![t] =
       [pc |-> "loop", op |-> op, content |-> content,
        parts |-> IF op = "internal" THEN SplitInternal(content)
                  ELSE SplitExternal(content),
        i |-> 1,
        linked |-> UNION {calls[u].linked : u \in {v \in DOMAIN calls : calls[v].op = op}},
        anchors |-> << >>, result |-> ""]]
  /\ UNCHANGED <<INTERNAL_LINKS, EXTERNAL_LINKS, last, prev>>
  /\ UNCHANGED seoVars
  /\ UNCHANGED runVars

\* thread t enters inject_internal_links(content) or
\* inject_external_links(content): linked_keys / linked_urls = set() and
\* parts / segments = re.split(...)
EnterCall(t, op, content) ==
  /\ calls[t].pc \in {"idle", "returned"}
  /\ calls' = [calls EXCEPT ![t] =
       [pc |-> "loop", op |-> op, content |-> content,
        parts |-> IF op = "internal" THEN SplitInternal(content)
                  ELSE SplitExternal(content),
        i |-> 1, linked |-> {}, anchors |-> << >>, result |-> ""]]
  /\ UNCHANGED <<INTERNAL_LINKS, EXTERNAL_LINKS, last, prev>>
  /\ UNCHANGED seoVars
  /\ UNCHANGED runVars

\* one round of "for i, part in enumerate(parts)" in the call thread t is
\* inside: a heading (or, in the external pass, an anchor) is passed over;
\* any other part goes through the loop over the table, which leaves r, and
\* parts[i] = current_part_modified
StepCall(t) ==
  /\ calls[t].pc = "loop"
  /\ calls[t].i <= Len(calls[t].parts)
  /\ LET f == calls[t]
         r == IF f.op = "internal"
              THEN InternalKeysOver(InternalEntries(INTERNAL_LINKS), 1, f.parts[f.i],
                                    f.linked, f.anchors)
              ELSE ExternalPhrasesOver(ExternalEntries(EXTERNAL_LINKS), 1, f.parts[f.i],
                                       f.linked, f.anchors)
     IN  calls' = [calls EXCEPT ![t] =
           IF \/ f.op = "internal" /\ InternalSkipsPart(f.parts[f.i])
              \/ f.op = "external" /\ ExternalSkipsSegment(f.parts[f.i])
           THEN [f EXCEPT !.i = f.i + 1]
           ELSE [f EXCEPT !.parts[f.i] = r.text, !.i = f.i + 1,
                          !.linked = r.linked, !.anchors = r.anchors]]
  /\ UNCHANGED <<INTERNAL_LINKS, EXTERNAL_LINKS, last, prev>>
  /\ UNCHANGED seoVars
  /\ UNCHANGED runVars

\* the loop is over: return "".join(parts)
ReturnCall(t) ==
  /\ calls[t].pc = "loop"
  /\ calls[t].i > Len(calls[t].parts)
  /\ calls' = [calls EXCEPT ![t] =
       [calls[t] EXCEPT !.pc = "returned", !.result = Join(calls[t].parts)]]
  /\ UNCHANGED <<INTERNAL_LINKS, EXTERNAL_LINKS, last, prev>>
  /\ UNCHANGED seoVars
  /\ UNCHANGED runVars

CallNext ==
  \/ \E t \in DOMAIN calls, op \in {"internal", "external"}, content \in CallContents :
       EnterCall(t, op, content)
  \/ \E t \in DOMAIN calls : StepCall(t)
  \/ \E t \in DOMAIN calls : ReturnCall(t)

CallSpec == CallInit /\ [][CallNext]_vars

(***************************************************************************)
(* C23: link injection keeps no state between calls.  Whatever calls the   *)
(* same thread has made before, and whatever call the other thread is      *)
(* inside of, a call that has returned has returned the string, and has    *)
(* consumed the phrases or URLs, that the same call on the same content    *)
(* and tables returns when it runs alone from start to end.                *)
(***************************************************************************)
\* what the call of frame f returns when nothing else runs
RunAlone(f) ==
  IF f.op = "internal" THEN inject_internal_links(INTERNAL_LINKS, f.content)
  ELSE inject_external_links(EXTERNAL_LINKS, f.content)

\* the returned frame f agrees with r, the same call run alone
ReturnedAs(f, r) ==
  /\ f.result = r.result
  /\ f.linked = r.linked
  /\ f.anchors = r.anchors

CallsReturnWhatTheyReturnAlone ==
  \A t \in DOMAIN calls :
    calls[t].pc = "returned" => ReturnedAs(calls[t], RunAlone(calls[t]))

\* both threads are in the middle of calls of the same kind on different
\* articles, and each has already consumed a phrase the other has consumed
TwoCallsInterleavedOverTheSamePhrase ==
  /\ calls[1].pc = "loop"
  /\ calls[2].pc = "loop"
  /\ calls[1].op = calls[2].op
  /\ calls[1].content # calls[2].content
  /\ calls[1].i \in 2 .. Len(calls[1].parts)
  /\ calls[2].i \in 2 .. Len(calls[2].parts)
  /\ calls[1].linked \cap calls[2].linked # {}

(***************************************************************************)
(* Measures over texts used by the properties.                             *)
(***************************************************************************)
\* the visible text of an anchor string <a ...>text</a>
AnchorText(a) == Slice(a, IndexFrom(a, ">", 1) + 1, Len(a) - 4)

\* the href value of an anchor string <a href="url"...>text</a>
AnchorHref(a) == Slice(a, 10, IndexFrom(a, "\"", 10) - 1)

\* the positions at which pat occurs in s (both strings, or both folds)
Occurrences(s, pat) ==
  {i \in 1..(Len(s) - Len(pat) + 1) : SubSeq(s, i, i + Len(pat) - 1) = pat}

\* the positions at which pat occurs in s, compared case-insensitively
FoldOccurrences(s, pat) == Occurrences(Fold(s), Fold(pat))

\* the positions at which phrase occurs in s as a whole word: compared
\* case-insensitively, with no letter, digit or underscore on either side
WholeWordOccurrences(s, phrase) ==
  {i \in FoldOccurrences(s, phrase) :
     /\ At(s, i - 1) \notin WordChars
     /\ At(s, i + Len(phrase)) \notin WordChars}

\* the blocks of s, as <<first, last>> positions: each runs from an
\* occurrence of open to the end of the first occurrence of close after it
BlocksOf(s, open, close) ==
  {<<p, IndexFrom(s, close, p + Len(open)) + Len(close) - 1>> :
     p \in {q \in Occurrences(s, open) : IndexFrom(s, close, q + Len(open)) > 0}}

\* the <h3>...</h3> blocks of content
HeadingBlocks(content) == BlocksOf(content, "<h3>", "</h3>")

\* the <h3>...</h3> and <a ...>...</a> blocks of content, in any casing
HeadingAndAnchorBlocks(content) ==
  BlocksOf(Fold(content), Fold("<h3>"), Fold("</h3>"))
    \cup BlocksOf(Fold(content), Fold("<a"), Fold("</a>"))

\* the positions a set of blocks covers
Covered(blocks) == UNION {b[1]..b[2] : b \in blocks}

\* the number of times the text of block b of content stands in s
Copies(s, content, b) == Cardinality(Occurrences(s, Slice(content, b[1], b[2])))

\* the table the latest call has used
CallTable == IF last.op = "internal" THEN INTERNAL_LINKS ELSE EXTERNAL_LINKS

\* the protected blocks of the latest call's content
CallBlocks ==
  IF last.op = "internal" THEN HeadingBlocks(last.content)
  ELSE HeadingAndAnchorBlocks(last.content)

\* the inserted anchors of the latest call whose visible text is phrase
AnchorsFor(phrase) ==
  {n \in 1..Len(last.anchors) : Fold(AnchorText(last.anchors[n])) = Fold(phrase)}

\* the inserted anchors of the latest call that point to url
AnchorsTo(url) ==
  {n \in 1..Len(last.anchors) : AnchorHref(last.anchors[n]) = url}

\* the rewritable parts of the internal pass that hold phrase as a whole word
InternalPartsHolding(content, phrase) ==
  {p \in 1..Len(SplitInternal(content)) :
     /\ ~StartsWith(SplitInternal(content)[p], "<h3>")
     /\ WholeWordOccurrences(SplitInternal(content)[p], phrase) # {}}

\* the rewritable segments of the external pass that hold phrase as a whole
\* word
ExternalSegmentsHolding(content, phrase) ==
  {p \in 1..Len(SplitExternal(content)) :
     /\ ~LowerStartsWith(SplitExternal(content)[p], "<h3>")
     /\ ~LowerStartsWith(SplitExternal(content)[p], "<a")
     /\ WholeWordOccurrences(SplitExternal(content)[p], phrase) # {}}

\* the position of the first character of part p of a split
PartStart(parts, p) == Len(Join(SubSeq(parts, 1, p - 1))) + 1

\* the positions of the parts of a split that do not begin with <h3>
RewritableOf(parts) ==
  UNION {IF StartsWith(parts[p], "<h3>") THEN {}
         ELSE PartStart(parts, p)..(PartStart(parts, p + 1) - 1) :
         p \in 1..Len(parts)}

\* the positions of content the internal pass may rewrite
InternalRewritable(content) == RewritableOf(SplitInternal(content))

\* the whole-word occurrences of phrase in content that the internal pass
\* may link: at a rewritable position and not directly after href="
InternalCandidates(content, rewritable, phrase) ==
  {i \in WholeWordOccurrences(content, phrase) \cap rewritable :
     Fold(Slice(content, i - 6, i - 1)) # Fold("href=\"")}

\* the anchor the internal pass is to write for the occurrence of a phrase
\* at position i of content, with the URL url
ExpectedInternalAnchor(content, i, phrase, url) ==
  "<a href=\"" \o url \o "\">" \o Slice(content, i, i + Len(phrase) - 1) \o "</a>"

(***************************************************************************)
(* C1: in one call of inject_internal_links every phrase of the internal   *)
(* table is wrapped in an anchor at most once over the whole content,      *)
(* whatever the number of segments it occurs in.                           *)
(***************************************************************************)
InternalPhraseLinkedAtMostOnce ==
  last.op = "internal" =>
    \A j \in 1..Len(INTERNAL_LINKS) :
      Cardinality(AnchorsFor(INTERNAL_LINKS[j][1])) <= 1

\* a phrase that stands in two rewritable segments has been linked once
InternalPhraseInTwoSegmentsLinkedOnce ==
  /\ last.op = "internal"
  /\ \E j \in 1..Len(INTERNAL_LINKS) :
       /\ Cardinality(InternalPartsHolding(last.content, INTERNAL_LINKS[j][1])) >= 2
       /\ Cardinality(AnchorsFor(INTERNAL_LINKS[j][1])) = 1

(***************************************************************************)
(* C2: in one call of inject_external_links each target URL is used by at  *)
(* most one inserted anchor; of two phrases of the table with the same URL *)
(* at most one is linked, also when they stand in different segments.      *)
(***************************************************************************)
ExternalUrlLinkedAtMostOnce ==
  last.op = "external" =>
    /\ \A j \in 1..Len(EXTERNAL_LINKS) :
         Cardinality(AnchorsTo(EXTERNAL_LINKS[j][2])) <= 1
    /\ \A j, k \in 1..Len(EXTERNAL_LINKS) :
         (j # k /\ EXTERNAL_LINKS[j][2] = EXTERNAL_LINKS[k][2]) =>
           (AnchorsFor(EXTERNAL_LINKS[j][1]) = {} \/ AnchorsFor(EXTERNAL_LINKS[k][1]) = {})

\* two phrases with one URL stand in different rewritable segments, the
\* first has been linked and the other has not
ExternalSecondPhraseOfUrlLeftPlain ==
  /\ last.op = "external"
  /\ \E j, k \in 1..Len(EXTERNAL_LINKS) :
       /\ j # k
       /\ EXTERNAL_LINKS[j][2] = EXTERNAL_LINKS[k][2]
       /\ \E p \in ExternalSegmentsHolding(last.content, EXTERNAL_LINKS[j][1]) :
            \E q \in ExternalSegmentsHolding(last.content, EXTERNAL_LINKS[k][1]) : p < q
       /\ Cardinality(AnchorsFor(EXTERNAL_LINKS[j][1])) = 1
       /\ AnchorsFor(EXTERNAL_LINKS[k][1]) = {}
       /\ Cardinality(AnchorsTo(EXTERNAL_LINKS[j][2])) = 1

IfSingle(S) == IF Cardinality(S) = 1 THEN S ELSE {}

\* the position at which phrase has its only candidate occurrence in the
\* content of the latest call, as a set: empty when there is none or several
LoneCandidate(phrase) ==
  IF WholeWordOccurrences(last.content, phrase) = {} THEN {}
  ELSE IfSingle(InternalCandidates(last.content, InternalRewritable(last.content), phrase))

SecondInternalPassAddsNoAnchor ==
  (last.op = "internal" /\ prev.op = "internal") =>
    /\ last.linked \cap prev.linked = {}
    /\ \A n \in 1..Len(prev.anchors) :
         AnchorsFor(AnchorText(prev.anchors[n])) = {}

\* s holds an anchor opened inside another anchor: two <a ...> tags with no
\* </a> between them
Nested(s) ==
  \E p, q \in FoldOccurrences(s, "<a ") :
    /\ p < q
    /\ \A c \in FoldOccurrences(s, "</a>") : c < p \/ c > q

(***************************************************************************)
(* C7: the output of inject_external_links holds no anchor inside another  *)
(* anchor when the content holds none, whatever the external table.        *)
(***************************************************************************)
ExternalNeverNestsAnchors ==
  (last.op = "external" /\ ~Nested(last.content)) => ~Nested(last.result)

(***************************************************************************)
(* C8: every anchor inject_external_links inserts is                       *)
(* <a href="URL" target="_blank" rel="R">text</a>, R being "noopener" when *)
(* URL is in the do-follow allow-list and "nofollow noopener" otherwise;   *)
(* every anchor inject_internal_links inserts is <a href="URL">text</a>.   *)
(***************************************************************************)
InsertedAnchorsCarryTheirAttributes ==
  /\ last.op = "external" =>
       \A n \in 1..Len(last.anchors) :
         \E j \in 1..Len(EXTERNAL_LINKS) :
           last.anchors[n] =
             "<a href=\"" \o EXTERNAL_LINKS[j][2] \o "\" target=\"_blank\" rel=\""
               \o (IF EXTERNAL_LINKS[j][2] \in DO_FOLLOW_URLS
                   THEN "noopener" ELSE "nofollow noopener")
               \o "\">" \o AnchorText(last.anchors[n]) \o "</a>"
  /\ last.op = "internal" =>
       \A n \in 1..Len(last.anchors) :
         \E j \in 1..Len(INTERNAL_LINKS) :
           last.anchors[n] =
             "<a href=\"" \o INTERNAL_LINKS[j][2] \o "\">"
               \o AnchorText(last.anchors[n]) \o "</a>"

\* one external call has inserted an anchor to a do-follow URL and an
\* anchor to another URL
ExternalCallInsertedBothKinds ==
  /\ last.op = "external"
  /\ \E n \in 1..Len(last.anchors) : AnchorHref(last.anchors[n]) \in DO_FOLLOW_URLS
  /\ \E n \in 1..Len(last.anchors) : AnchorHref(last.anchors[n]) \notin DO_FOLLOW_URLS

\* the whole-word occurrences of phrase in the content of the latest call
\* that lie outside its protected blocks
CallOccurrences(phrase) ==
  WholeWordOccurrences(last.content, phrase) \ Covered(CallBlocks)

(***************************************************************************)
(* C9: a phrase is linked only where it stands as a whole word, and when   *)
(* one phrase of the table is a part of another (with another URL, in the  *)
(* external pass) and the content holds an occurrence of the longer and a  *)
(* separate occurrence of the shorter, both phrases are linked.            *)
(***************************************************************************)
PhraseAndItsPartBothLinked ==
  last.op # "none" =>
    /\ \A j \in 1..Len(CallTable) :
         AnchorsFor(CallTable[j][1]) # {} =>
           WholeWordOccurrences(last.content, CallTable[j][1]) # {}
    /\ \A j, k \in 1..Len(CallTable) :
         ( /\ Len(CallTable[j][1]) < Len(CallTable[k][1])
           /\ WholeWordOccurrences(CallTable[k][1], CallTable[j][1]) # {}
           /\ last.op = "external" => CallTable[j][2] # CallTable[k][2]
           /\ \E q \in CallOccurrences(CallTable[k][1]) :
                \E p \in CallOccurrences(CallTable[j][1]) :
                  p + Len(CallTable[j][1]) <= q \/ q + Len(CallTable[k][1]) <= p )
         => (AnchorsFor(CallTable[j][1]) # {} /\ AnchorsFor(CallTable[k][1]) # {})

(***************************************************************************)
(* C10: with an empty table or an empty content both passes return the     *)
(* content unchanged; a phrase that has no match is not linked, and the    *)
(* content comes back unchanged when no phrase of the table has a match.   *)
(***************************************************************************)
UnmatchedContentReturnedUnchanged ==
  last.op # "none" =>
    /\ (CallTable = << >> \/ last.content = "")
         => (last.result = last.content /\ last.anchors = << >>)
    /\ \A j \in 1..Len(CallTable) :
         WholeWordOccurrences(last.content, CallTable[j][1]) = {}
           => AnchorsFor(CallTable[j][1]) = {}
    /\ (\A j \in 1..Len(CallTable) :
          WholeWordOccurrences(last.content, CallTable[j][1]) = {})
         => (last.result = last.content /\ last.anchors = << >>)

\* a content with a heading and text has come back unchanged from a call
\* with an empty table
EmptyTableReturnedContent ==
  /\ last.op # "none"
  /\ CallTable = << >>
  /\ HeadingBlocks(last.content) # {}
  /\ Covered(HeadingBlocks(last.content)) # 1..Len(last.content)
  /\ last.result = last.content

(***************************************************************************)
(* SEO metadata.  An argument that may be None is None or Some(value);     *)
(* a JSON object is a function from its keys to its values.                *)
(***************************************************************************)
None == [none |-> TRUE]

Some(x) == [none |-> FALSE, val |-> x]

\* an optional string or list counted as given unless it is None
NotNone(x) == ~x.none

\* the truth value Python gives an optional string or list
Truthy(x) == ~x.none /\ Len(x.val) > 0

RECURSIVE JoinWith(_, _)
\* sep.join(items)
JoinWith(sep, items) ==
  IF items = << >> THEN ""
  ELSE IF Len(items) = 1 THEN items[1]
  ELSE items[1] \o sep \o JoinWith(sep, Tail(items))

\* all_keyphrases with the focus keyphrase never appended
all_keyphrases_without_focus(focus_keyphrase, additional_keyphrases) ==
  IF Truthy(additional_keyphrases) THEN additional_keyphrases.val ELSE << >>

\* all_keyphrases: the focus keyphrase, if any, then the additional ones
all_keyphrases(focus_keyphrase, additional_keyphrases) ==
  (IF Truthy(focus_keyphrase) THEN <<focus_keyphrase.val>> ELSE << >>)
    \o (IF Truthy(additional_keyphrases) THEN additional_keyphrases.val ELSE << >>)

\* the title and description fields of the old AIOSEO Pack Pro format
old_meta(seo_title, meta_description) ==
  ("_aioseop_title" :> seo_title) @@ ("_aioseop_description" :> meta_description)

\* seo_data of the old AIOSEO Pack Pro v2.7.1 format
old_seo_data(seo_title, meta_description, focus_keyphrase, additional_keyphrases) ==
  "meta" :>
    (IF Truthy(focus_keyphrase) \/ Truthy(additional_keyphrases)
     THEN ("_aioseop_keywords" :>
             JoinWith(", ", all_keyphrases(focus_keyphrase, additional_keyphrases)))
          @@ old_meta(seo_title, meta_description)
     ELSE old_meta(seo_title, meta_description))

\* additional_keyphrases or []
OrEmpty(additional_keyphrases) ==
  IF Truthy(additional_keyphrases) THEN additional_keyphrases.val ELSE << >>

\* the title and description fields of the new AIOSEO Pro format
new_meta(seo_title, meta_description) ==
  ("title" :> seo_title) @@ ("description" :> meta_description)

\* the keyphrases structure with the additional keyphrases left out
keyphrases_focus_only(focus_keyphrase, additional_keyphrases) ==
  ("focus" :> ("keyphrase" :> focus_keyphrase.val)) @@ ("additional" :> << >>)

\* the keyphrases structure of the new format
keyphrases(focus_keyphrase, additional_keyphrases) ==
  ("focus" :> ("keyphrase" :> focus_keyphrase.val))
    @@ ("additional" :>
          [i \in 1..Len(OrEmpty(additional_keyphrases)) |->
             ("keyphrase" :> OrEmpty(additional_keyphrases)[i])])

\* the new format with the keyphrase fields added whenever any keyphrase
\* input is given
new_seo_data_any_keyphrase(seo_title, meta_description, focus_keyphrase, additional_keyphrases) ==
  "aioseo_meta_data" :>
    (IF Truthy(focus_keyphrase) \/ Truthy(additional_keyphrases)
     THEN ("focus_keyphrase" :> (IF Truthy(focus_keyphrase) THEN focus_keyphrase.val ELSE ""))
          @@ ("keyphrases" :>
                ("focus" :> ("keyphrase" :> (IF Truthy(focus_keyphrase) THEN focus_keyphrase.val ELSE "")))
                  @@ ("additional" :>
                        [i \in 1..Len(OrEmpty(additional_keyphrases)) |->
                           ("keyphrase" :> OrEmpty(additional_keyphrases)[i])]))
          @@ new_meta(seo_title, meta_description)
     ELSE new_meta(seo_title, meta_description))

\* seo_data of the new AIOSEO Pro v4.7.3+ format
new_seo_data(seo_title, meta_description, focus_keyphrase, additional_keyphrases) ==
  "aioseo_meta_data" :>
    (IF Truthy(focus_keyphrase)
     THEN ("focus_keyphrase" :> focus_keyphrase.val)
          @@ ("keyphrases" :> keyphrases(focus_keyphrase, additional_keyphrases))
          @@ new_meta(seo_title, meta_description)
     ELSE new_meta(seo_title, meta_description))

\* the plugin version the engine is configured for
seo_plugin_version(cfg) == Get(cfg, "seo_plugin_version", "new")

\* prepare_seo_data: the payload of the configured plugin version
prepare_seo_data(seo_title, meta_description, focus_keyphrase, additional_keyphrases, plugin_shape) ==
  IF plugin_shape = "old"
  THEN old_seo_data(seo_title, meta_description, focus_keyphrase, additional_keyphrases)
  ELSE new_seo_data(seo_title, meta_description, focus_keyphrase, additional_keyphrases)

(***************************************************************************)
(* generate_seo_title_and_meta.  The answer of the Gemini API is None when *)
(* the request raises (timeout, HTTP error, unexpected JSON) and           *)
(* Some(text) when it gives a text.                                        *)
(***************************************************************************)
\* the characters \s and str.strip() take for white space
Whitespace == {" ", "\t", "\n", "\r"}

RECURSIVE LStrip(_)
\* s.lstrip()
LStrip(s) ==
  IF Len(s) > 0 /\ At(s, 1) \in Whitespace THEN LStrip(Slice(s, 2, Len(s))) ELSE s

RECURSIVE RStrip(_)
\* s.rstrip()
RStrip(s) ==
  IF Len(s) > 0 /\ At(s, Len(s)) \in Whitespace THEN RStrip(Slice(s, 1, Len(s) - 1))
  ELSE s

\* s.strip()
Strip(s) == LStrip(RStrip(s))

RECURSIVE LastSpace(_, _)
\* the last position <= i of s that holds a space, 0 when there is none
LastSpace(s, i) ==
  IF i = 0 THEN 0 ELSE IF At(s, i) = " " THEN i ELSE LastSpace(s, i - 1)

\* s.rsplit(" ", 1)[0]
RSplitHead(s) ==
  IF LastSpace(s, Len(s)) = 0 THEN s ELSE Slice(s, 1, LastSpace(s, Len(s)) - 1)

RECURSIVE StripTagsFrom(_, _)
\* s from position i on with the tag that begins at lt and ends at gt taken
\* out: a "<" begins a tag when the next ">" stands at least one character
\* after it
StripTagsTag(s, i, lt, gt) ==
  IF gt > lt + 1 THEN Slice(s, i, lt - 1) \o StripTagsFrom(s, gt + 1)
  ELSE Slice(s, i, lt) \o StripTagsFrom(s, lt + 1)

\* s from position i on with its tags taken out, the next "<" standing at lt
StripTagsAt(s, i, lt) ==
  IF lt = 0 THEN Slice(s, i, Len(s))
  ELSE StripTagsTag(s, i, lt, IndexFrom(s, ">", lt + 1))

\* re.sub(r'<[^>]+>', '', s) from position i on
StripTagsFrom(s, i) == StripTagsAt(s, i, IndexFrom(s, "<", i))

\* meta_desc of the fallback
meta_desc(clean_content) ==
  IF Len(clean_content) > 157 THEN Slice(clean_content, 1, 157) \o "..."
  ELSE clean_content

\* seo_title of the fallback
fallback_title(title) ==
  IF Len(title) > 59 THEN Slice(title, 1, 59) ELSE title

\* the simple generation without the API
fallback_seo(title, content) ==
  [seo_title |-> fallback_title(title),
   meta_description |-> meta_desc(StripTagsFrom(content, 1))]

\* the text between "SEO_TITLE:" at position p and the next "META:" at
\* position m, stripped; "" when either is missing
match_seo_between(text, p, m) ==
  IF p > 0 /\ m > 0 THEN Strip(Slice(text, p + 10, m - 1)) ELSE ""

\* the text after "SEO_TITLE:" at position p, up to the next "META:"
match_seo_at(text, p) ==
  match_seo_between(text, p, IF p > 0 THEN IndexFrom(text, "META:", p + 10) ELSE 0)

\* match_seo: re.search(r"SEO_TITLE:\s*(.*?)\s*META:", text, re.DOTALL),
\* group(1).strip(), "" without a match
match_seo(text) == match_seo_at(text, IndexFrom(text, "SEO_TITLE:", 1))

\* the text after "META:" at position p, stripped; "" when there is none
match_meta_at(text, p) ==
  IF p > 0 /\ p + 5 <= Len(text) THEN Strip(Slice(text, p + 5, Len(text))) ELSE ""

\* match_meta: re.search(r"META:\s*(.+)", text, re.DOTALL), group(1).strip(),
\* "" without a match
match_meta(text) == match_meta_at(text, IndexFrom(text, "META:", 1))

\* the generated title fitted to 59 characters
fit_title(seo_title) ==
  IF Len(seo_title) > 59 THEN Strip(RSplitHead(Slice(seo_title, 1, 59)))
  ELSE seo_title

\* the title and description read from the text of the API's answer
parsed_seo(text) ==
  [seo_title |-> fit_title(match_seo(text)), meta_description |-> match_meta(text)]

\* the request generate_seo_title_and_meta sends to the Gemini API
GeminiRequest ==
  [method |-> "POST", url |-> "https://generativelanguage.googleapis.com", json |-> << >>]

\* generate_seo_title_and_meta(title, content) -> (seo_title, meta_description)
generate_seo_title_and_meta(cfg, title, content, api) ==
  IF title = "" \/ content = "" THEN [seo_title |-> title, meta_description |-> ""]
  ELSE IF Get(cfg, "gemini_api_key", "") = "" THEN fallback_seo(title, content)
  ELSE IF api.none THEN fallback_seo(title, content)
  ELSE parsed_seo(Strip(api.val))

\* the requests generate_seo_title_and_meta makes
generate_seo_requests(cfg, title, content) ==
  IF title = "" \/ content = "" \/ Get(cfg, "gemini_api_key", "") = "" THEN << >>
  ELSE <<GeminiRequest>>

(***************************************************************************)
(* post_to_wordpress_with_seo.  The WordPress REST API is the environment: *)
(* env says how it answers each request of the call.  A request is         *)
(* recorded with its method, URL and JSON body; the slug of the post       *)
(* payload is not modelled.                                                *)
(***************************************************************************)
WpRequest(method, url, json) == [method |-> method, url |-> url, json |-> json]

\* all([wp_base_url, username, password])
credentials_configured(cfg) ==
  /\ Get(cfg, "wp_base_url", "") # ""
  /\ Get(cfg, "wp_username", "") # ""
  /\ Get(cfg, "wp_password", "") # ""

\* seo_title and meta_description are generated unless both are given
seo_generated(a) == ~Truthy(a.seo_title) \/ ~Truthy(a.meta_description)

\* the SEO title and meta description the call works with
seo_elements(cfg, a, env) ==
  IF seo_generated(a)
  THEN generate_seo_title_and_meta(cfg, a.title, a.content, env.api)
  ELSE [seo_title |-> a.seo_title.val, meta_description |-> a.meta_description.val]

\* the keyphrases are extracted unless a focus keyphrase and additional
\* keyphrases are both given
keyphrases_extracted(a) == ~Truthy(a.focus_keyphrase) \/ ~Truthy(a.additional_keyphrases)

\* the focus keyphrase and additional keyphrases the call works with;
\* extract_keyphrases_with_gemini gives env.extracted
keyphrase_elements(a, env) ==
  IF keyphrases_extracted(a) THEN env.extracted
  ELSE [focus_keyphrase |-> a.focus_keyphrase.val,
        additional_keyphrases |-> a.additional_keyphrases.val]

\* the requests extract_keyphrases_with_gemini makes
extract_keyphrases_requests(cfg) ==
  IF Get(cfg, "gemini_api_key", "") = "" THEN << >> ELSE <<GeminiRequest>>

\* the requests made before the first request to WordPress
generation_requests(cfg, a) ==
  (IF seo_generated(a) THEN generate_seo_requests(cfg, a.title, a.content) ELSE << >>)
    \o (IF keyphrases_extracted(a) THEN extract_keyphrases_requests(cfg) ELSE << >>)

\* excerpt: the text of the content, cut to 297 characters on a space and
\* closed with "..." when it is longer than 300
excerpt_of(clean) ==
  IF Len(clean) > 300
  THEN (IF LastSpace(Slice(clean, 1, 297), 297) # 0
        THEN Slice(clean, 1, LastSpace(Slice(clean, 1, 297), 297) - 1)
        ELSE Slice(clean, 1, 297)) \o "..."
  ELSE clean

\* the id WordPress gives for a category or tag
TermId == 1

\* the requests made for one category or tag: a search and, when nothing is
\* found, a creation
term_requests(url, name, outcome) ==
  IF outcome \in {"created", "create_unauthorized"}
  THEN <<WpRequest("GET", url, << >>), WpRequest("POST", url, [name |-> name])>>
  ELSE <<WpRequest("GET", url, << >>)>>

\* ids with the id of one more category or tag, if it has one and it is new
with_term_id(ids, outcome) ==
  IF outcome \in {"found", "created"} /\ \A i \in DOMAIN ids : ids[i] # TermId
  THEN Append(ids, TermId)
  ELSE ids

RECURSIVE handle_terms(_, _, _, _, _, _)
\* the loop over the categories (stop_on_401) or the tags from item i on:
\* the requests sent, the ids collected, and whether a 401 ended the call
handle_terms(url, names, outcomes, stop_on_401, i, acc) ==
  IF i > Len(names) THEN acc
  ELSE IF stop_on_401 /\ outcomes[i] \in {"unauthorized", "create_unauthorized"}
       THEN [sent |-> acc.sent \o term_requests(url, names[i], outcomes[i]),
             ids |-> acc.ids, unauthorized |-> TRUE]
  ELSE handle_terms(url, names, outcomes, stop_on_401, i + 1,
                    [sent |-> acc.sent \o term_requests(url, names[i], outcomes[i]),
                     ids |-> with_term_id(acc.ids, outcomes[i]),
                     unauthorized |-> FALSE])

NoTerms == [sent |-> << >>, ids |-> << >>, unauthorized |-> FALSE]

\* the payload of a post that is published at once
post_payload_published(a, seo, kp, cat_ids, tag_ids) ==
  [title |-> a.title,
   content |-> a.content,
   excerpt |-> excerpt_of(Strip(StripTagsFrom(a.content, 1))),
   status |-> "publish",
   categories |-> cat_ids,
   tags |-> tag_ids,
   yoast_head |-> "",
   focuskw |-> kp.focus_keyphrase,
   metadesc |-> seo.meta_description,
   additional_keyphrases |-> kp.additional_keyphrases]

\* payload: the post as a draft
post_payload(a, seo, kp, cat_ids, tag_ids) ==
  [title |-> a.title,
   content |-> a.content,
   excerpt |-> excerpt_of(Strip(StripTagsFrom(a.content, 1))),
   status |-> "draft",
   categories |-> cat_ids,
   tags |-> tag_ids,
   yoast_head |-> "",
   focuskw |-> kp.focus_keyphrase,
   metadesc |-> seo.meta_description,
   additional_keyphrases |-> kp.additional_keyphrases]

\* aioseo_meta
aioseo_meta(seo, kp) ==
  [aioseo_meta_data |->
     [title |-> seo.seo_title,
      description |-> seo.meta_description,
      keyphrases |->
        [focus |-> [keyphrase |-> kp.focus_keyphrase, score |-> 100],
         additional |->
           [i \in 1..Len(kp.additional_keyphrases) |->
              [keyphrase |-> kp.additional_keyphrases[i], score |-> 75]]]]]

\* yoast_meta
yoast_meta(seo, kp) ==
  [yoast_wpseo_focuskw |-> kp.focus_keyphrase,
   yoast_wpseo_metadesc |-> seo.meta_description,
   yoast_wpseo_title |-> seo.seo_title]

\* meta_fields
meta_fields(seo, kp) ==
  "meta" :>
    (("_yoast_wpseo_focuskw" :> kp.focus_keyphrase)
       @@ ("_yoast_wpseo_metadesc" :> seo.meta_description)
       @@ ("_yoast_wpseo_title" :> seo.seo_title)
       @@ ("focus_keyphrase" :> kp.focus_keyphrase)
       @@ ("additional_keyphrases" :> JoinWith(", ", kp.additional_keyphrases)))

\* the answer to a PUT lets the update go on without an exception: a status
\* below 400
put_accepted(answer) == ~answer.none /\ answer.val < 400

\* the SEO update sent in the AIOSEO and the Yoast format whatever the answers
seo_update_in_both_formats(url, seo, kp, puts) ==
  <<WpRequest("PUT", url, aioseo_meta(seo, kp)), WpRequest("PUT", url, yoast_meta(seo, kp))>>

\* the requests of the SEO update of the post at url: the AIOSEO format, the
\* Yoast format when the status is neither 200 nor 201, and the custom
\* fields when a request raises or the last status is an error
seo_update_requests(url, seo, kp, puts) ==
  IF puts[1].none
  THEN <<WpRequest("PUT", url, aioseo_meta(seo, kp)),
         WpRequest("PUT", url, meta_fields(seo, kp))>>
  ELSE IF puts[1].val \in {200, 201}
  THEN <<WpRequest("PUT", url, aioseo_meta(seo, kp))>>
  ELSE IF put_accepted(puts[2])
  THEN <<WpRequest("PUT", url, aioseo_meta(seo, kp)),
         WpRequest("PUT", url, yoast_meta(seo, kp))>>
  ELSE <<WpRequest("PUT", url, aioseo_meta(seo, kp)),
         WpRequest("PUT", url, yoast_meta(seo, kp)),
         WpRequest("PUT", url, meta_fields(seo, kp))>>

\* return None, None
NothingPosted(sent) == [sent |-> sent, post_id |-> None, title |-> None]

\* the id WordPress gives the created post
PostId == 123

\* the call from the creation of the post on
post_created(wp_base_url, a, env, seo, kp, sent, cat_ids, tag_ids) ==
  IF env.post # "created"
  THEN NothingPosted(Append(sent, WpRequest("POST", wp_base_url \o "/posts",
                                            post_payload(a, seo, kp, cat_ids, tag_ids))))
  ELSE [sent |-> Append(sent, WpRequest("POST", wp_base_url \o "/posts",
                                        post_payload(a, seo, kp, cat_ids, tag_ids)))
                   \o seo_update_requests(wp_base_url \o "/posts/" \o ToString(PostId),
                                          seo, kp, env.puts),
        post_id |-> Some(PostId),
        title |-> Some(seo.seo_title)]

\* the call from the tags on
post_tagged(wp_base_url, a, env, seo, kp, sent, cat_ids, tagged) ==
  post_created(wp_base_url, a, env, seo, kp, sent \o tagged.sent, cat_ids, tagged.ids)

\* the call from the categories on
post_categorized(wp_base_url, a, env, seo, kp, sent, categorized) ==
  IF categorized.unauthorized THEN NothingPosted(sent \o categorized.sent)
  ELSE post_tagged(wp_base_url, a, env, seo, kp, sent \o categorized.sent,
                   categorized.ids,
                   handle_terms(wp_base_url \o "/tags", a.tags, env.tags, FALSE, 1, NoTerms))

\* post_to_wordpress_with_seo(title, content, categories, tags, ...) ->
\* (post_id, seo_title), with the requests it has sent
post_to_wordpress_with_seo(cfg, a, env) ==
  IF ~credentials_configured(cfg) THEN NothingPosted(<< >>)
  ELSE post_categorized(Get(cfg, "wp_base_url", ""), a, env,
                        seo_elements(cfg, a, env), keyphrase_elements(a, env),
                        generation_requests(cfg, a),
                        handle_terms(Get(cfg, "wp_base_url", "") \o "/categories",
                                     a.categories, env.categories, TRUE, 1, NoTerms))

(***************************************************************************)
(* validate_seo_configuration: the gate on the plugin version and the      *)
(* WordPress credentials of the engine's config.                           *)
(***************************************************************************)
\* required_wp_fields
required_wp_fields == {"wp_base_url", "wp_username", "wp_password"}

\* some seo_plugin_version is configured
plugin_version_given(cfg) == Get(cfg, "seo_plugin_version", "") # ""

\* seo_plugin_version is configured and is 'old' or 'new'
plugin_version_valid(cfg) == Get(cfg, "seo_plugin_version", "") \in {"old", "new"}

\* no required WordPress field is missing or empty
wp_fields_present(cfg) == \A field \in required_wp_fields : Get(cfg, field, "") # ""

\* validate_seo_configuration() -> bool
validate_seo_configuration(cfg) == plugin_version_valid(cfg) /\ wp_fields_present(cfg)

(***************************************************************************)
(* update_seo_metadata_with_retry: the SEO payload is sent for a post with *)
(* up to max_retries attempts.  answers[i] is what attempt i meets: the    *)
(* request succeeds, times out, gets a 5xx answer, is refused as            *)
(* unauthorized, or is refused as a bad request.                           *)
(***************************************************************************)
\* no failure ends the attempts
retry_any_failure(answer) == FALSE

\* a failure that is not retried: an authentication or malformed-payload
\* class error
permanent_failure(answer) == answer \in {"unauthorized", "bad_request"}

\* the attempts are used up one attempt early
attempts_exhausted_early(attempt, max_retries) == attempt >= max_retries

\* max_retries attempts have been made
attempts_exhausted(attempt, max_retries) == attempt > max_retries

RECURSIVE update_seo_metadata_with_retry(_, _, _)
\* update_seo_metadata_with_retry(posts_url, post_id, seo_data, auth,
\* max_retries) -> bool from attempt number attempt on, with the number of
\* attempts made
update_seo_metadata_with_retry(answers, max_retries, attempt) ==
  IF attempts_exhausted(attempt, max_retries)
  THEN [result |-> FALSE, attempts |-> attempt - 1]
  ELSE IF answers[attempt] = "success" THEN [result |-> TRUE, attempts |-> attempt]
  ELSE IF permanent_failure(answers[attempt]) THEN [result |-> FALSE, attempts |-> attempt]
  ELSE update_seo_metadata_with_retry(answers, max_retries, attempt + 1)

(***************************************************************************)
(* Inputs of the SEO operations.                                           *)
(***************************************************************************)
SeoTitles == {"Test SEO Title", "Minimal Title"}

MetaDescriptions == {"Test meta description for SEO"}

Keyphrases == {"additional1", "additional2"}

MaxKeyphrases == 2

RECURSIVE KeyphraseLists(_)
\* the lists of at most n additional keyphrases, duplicates included
KeyphraseLists(n) ==
  IF n = 0 THEN {<< >>}
  ELSE KeyphraseLists(n - 1)
         \cup {Append(l, kp) : l \in KeyphraseLists(n - 1), kp \in Keyphrases}

\* focus_keyphrase: not given, empty, or a phrase
FocusKeyphrases == {None, Some(""), Some("test keyphrase")}

\* additional_keyphrases: not given, or a list
AdditionalKeyphrases == {None} \cup {Some(l) : l \in KeyphraseLists(MaxKeyphrases)}

\* article titles: none, a short one, one whose 59th character stands within
\* a word, one whose 59th character ends a word, and one without a space
ArticleTitles ==
  { "", "Test Post",
    "Manchester United complete the signing of a new striker from Italy",
    "Manchester United agree a fee for the Italian striker Rossi today",
    "Manchester-United-complete-the-signing-of-a-new-striker-from-Italy" }

\* article contents: none, a short one, and one of more than 157 characters
ArticleContents ==
  { "", "<p>Test content</p>",
    "<p>Manchester United have agreed a fee for the Italian striker Rossi, who "
      \o "is expected to travel to England for a medical this week while the clubs "
      \o "work on the details.</p>" }

\* texts the Gemini API may answer with: as asked, with a title that is too
\* long, with a long title that has no space, and not in the format asked for
ApiTexts ==
  { "SEO_TITLE:\nTest SEO Title\n\nMETA:\nTest meta description for SEO\n",
    "SEO_TITLE:\nManchester United complete the signing of a new striker from Italy\n\nMETA:\nTest meta description for SEO",
    "SEO_TITLE: Manchester-United-complete-the-signing-of-a-new-striker-from-Italy META: Test",
    "I cannot write a headline for this article." }

\* the answers of the Gemini API: the request raises, or gives a text
ApiAnswers == {None} \cup {Some(text) : text \in ApiTexts}

\* the keyphrase arguments of a publish call: both given, the focus
\* keyphrase alone, the additional keyphrases alone, none
KeyphraseArguments ==
  { <<Some("test keyphrase"), Some(<<"additional1">>)>>,
    <<Some("test keyphrase"), None>>,
    <<None, Some(<<"additional1", "additional2">>)>>,
    <<None, None>> }

\* the SEO title and meta description of a publish call: given, or left to
\* the call
SeoArguments ==
  { <<Some("Test SEO Title"), Some("Test meta description for SEO")>>, <<None, None>> }

\* the arguments of a publish call
PostArguments ==
  {[title |-> "Test Post",
    content |-> "<p>Test content</p>",
    categories |-> <<"Test Category", "News">>,
    tags |-> <<"test-tag", "football">>,
    seo_title |-> st[1],
    meta_description |-> st[2],
    focus_keyphrase |-> kp[1],
    additional_keyphrases |-> kp[2]] : st \in SeoArguments, kp \in KeyphraseArguments}

\* the answers to a PUT: the request raises, or gives a status
PutAnswers == {None, Some(200), Some(401), Some(500)}

\* how WordPress answers for one category or tag: found by the search,
\* created after an empty search, the search refused with 401, the creation
\* refused with 401, the search failing with another error
TermOutcomes == {"found", "created", "unauthorized", "create_unauthorized", "error"}

\* the answers for two categories or two tags, one of them found
TermOutcomePairs ==
  {<<o, "found">> : o \in TermOutcomes} \cup {<<"found", o>> : o \in TermOutcomes}

\* an environment in which every request succeeds at once
CalmEnv ==
  [api |-> None,
   extracted |-> [focus_keyphrase |-> "transfer news",
                  additional_keyphrases |-> <<"premier league">>],
   categories |-> <<"found", "found">>,
   tags |-> <<"found", "found">>,
   post |-> "created",
   puts |-> <<Some(200), Some(200)>>]

\* the environments of a publish call: one stage of the call at a time
\* meets answers other than success
PublishEnvs ==
  {[CalmEnv EXCEPT !.api = api, !.extracted = ex] :
     api \in {None, Some("SEO_TITLE:\nTest SEO Title\n\nMETA:\nTest meta description for SEO\n")},
     ex \in {CalmEnv.extracted, [focus_keyphrase |-> "", additional_keyphrases |-> << >>]}}
  \cup {[CalmEnv EXCEPT !.categories = cs] : cs \in TermOutcomePairs}
  \cup {[CalmEnv EXCEPT !.tags = ts] : ts \in TermOutcomePairs}
  \cup {[CalmEnv EXCEPT !.post = o] : o \in {"created", "no_id", "error"}}
  \cup {[CalmEnv EXCEPT !.puts = <<first, second>>] :
          first \in PutAnswers, second \in PutAnswers}

\* the largest max_retries a call is made with
MaxRetries == 3

\* what an attempt to send the SEO payload meets
AttemptAnswers == {"success", "timeout", "server_error", "unauthorized", "bad_request"}

\* the answers the attempts of a call would meet, one per possible attempt
AnswerScripts == [1..MaxRetries -> AttemptAnswers]

\* a dict that holds key with one of values, or does not hold it
Entries(key, values) == {<< >>} \cup {key :> v : v \in values}

\* the config dicts an engine may be constructed with
EngineConfigs ==
  {v @@ b @@ u @@ w @@ k :
     v \in Entries("seo_plugin_version", {"old", "new", "invalid"}),
     b \in Entries("wp_base_url", {"", "https://example.com/wp-json/wp/v2"}),
     u \in Entries("wp_username", {"", "testuser"}),
     w \in Entries("wp_password", {"", "testpass"}),
     k \in Entries("gemini_api_key", {"key"})}

(***************************************************************************)
(* State machine of the SEO and publishing operations: one engine, its     *)
(* config, and the record of the latest operation made on it.              *)
(***************************************************************************)
\* the engine has been constructed with one of the config dicts
SeoInit ==
  /\ config \in EngineConfigs \cup {DefaultConfig}
  /\ seo_call = NoSeoCall
  /\ INTERNAL_LINKS = DefaultInternalLinks
  /\ EXTERNAL_LINKS = DefaultExternalLinks
  /\ last = NoCall
  /\ prev = NoCall
  /\ gui = [NewGui EXCEPT !.automation_engine = TRUE]
  /\ run = NoRun
  /\ handed = << >>
  /\ article = NoArticle
  /\ posted_links_file = {}
  /\ calls = NoCalls

\* engine.prepare_seo_data(seo_title, meta_description, focus_keyphrase,
\* additional_keyphrases)
PrepareSeoData(seo_title, meta_description, focus_keyphrase, additional_keyphrases) ==
  /\ seo_call = NoSeoCall
  /\ seo_plugin_version(config) \in {"old", "new"}
  /\ seo_call' =
       [op |-> "prepare_seo_data",
        seo_title |-> seo_title,
        meta_description |-> meta_description,
        focus_keyphrase |-> focus_keyphrase,
        additional_keyphrases |-> additional_keyphrases,
        result |-> prepare_seo_data(seo_title, meta_description, focus_keyphrase,
                                    additional_keyphrases, seo_plugin_version(config))]
  /\ UNCHANGED config
  /\ UNCHANGED linkVars
  /\ UNCHANGED runVars

\* engine.generate_seo_title_and_meta(title, content), the Gemini API
\* answering api
GenerateSeoTitleAndMeta(title, content, api) ==
  /\ seo_call = NoSeoCall
  /\ seo_call' =
       [op |-> "generate_seo_title_and_meta",
        title |-> title,
        content |-> content,
        api |-> api,
        sent |-> generate_seo_requests(config, title, content),
        result |-> generate_seo_title_and_meta(config, title, content, api)]
  /\ UNCHANGED config
  /\ UNCHANGED linkVars
  /\ UNCHANGED runVars

\* engine.post_to_wordpress_with_seo(title, content, categories, tags, ...),
\* the Gemini and WordPress APIs answering as env says
PostToWordpressWithSeo(a, env) ==
  /\ seo_call = NoSeoCall
  /\ seo_call' =
       [op |-> "post_to_wordpress_with_seo",
        args |-> a,
        env |-> env,
        result |-> post_to_wordpress_with_seo(config, a, env)]
  /\ UNCHANGED config
  /\ UNCHANGED linkVars
  /\ UNCHANGED runVars

\* engine.validate_seo_configuration()
ValidateSeoConfiguration ==
  /\ seo_call = NoSeoCall
  /\ seo_call' = [op |-> "validate_seo_configuration",
                  result |-> validate_seo_configuration(config)]
  /\ UNCHANGED config
  /\ UNCHANGED linkVars
  /\ UNCHANGED runVars

\* engine.update_seo_metadata_with_retry(posts_url, post_id, seo_data, auth,
\* max_retries), the attempts meeting answers; the update is made on an
\* engine whose configuration has passed the gate
UpdateSeoMetadataWithRetry(answers, max_retries) ==
  /\ seo_call = NoSeoCall
  /\ validate_seo_configuration(config)
  /\ seo_call' = [op |-> "update_seo_metadata_with_retry",
                  answers |-> answers,
                  max_retries |-> max_retries,
                  outcome |-> update_seo_metadata_with_retry(answers, max_retries, 1)]
  /\ UNCHANGED config
  /\ UNCHANGED linkVars
  /\ UNCHANGED runVars

\* the operation's result has been looked at; the next one starts from a
\* clean record
SeoCallDone ==
  /\ seo_call # NoSeoCall
  /\ seo_call' = NoSeoCall
  /\ UNCHANGED config
  /\ UNCHANGED linkVars
  /\ UNCHANGED runVars

SeoNext ==
  \/ SeoCallDone
  \/ ValidateSeoConfiguration
  \/ \E answers \in AnswerScripts, max_retries \in 1..MaxRetries :
       UpdateSeoMetadataWithRetry(answers, max_retries)
  \/ \E seo_title \in SeoTitles, meta_description \in MetaDescriptions,
        focus_keyphrase \in FocusKeyphrases,
        additional_keyphrases \in AdditionalKeyphrases :
       PrepareSeoData(seo_title, meta_description, focus_keyphrase, additional_keyphrases)
  \/ \E title \in ArticleTitles, content \in ArticleContents, api \in ApiAnswers :
       GenerateSeoTitleAndMeta(title, content, api)
  \/ \E a \in PostArguments, env \in PublishEnvs : PostToWordpressWithSeo(a, env)

SeoSpec == SeoInit /\ [][SeoNext]_vars

(***************************************************************************)
(* Measures over SEO payloads used by the properties.                      *)
(***************************************************************************)
\* an optional argument is absent: None or empty
Absent(x) == x.none \/ Len(x.val) = 0

\* the list [focus_keyphrase] + additional_keyphrases of a call, the focus
\* keyphrase left out when it is absent
KeywordList(call) ==
  (IF Absent(call.focus_keyphrase) THEN << >> ELSE <<call.focus_keyphrase.val>>)
    \o (IF Absent(call.additional_keyphrases) THEN << >>
        ELSE call.additional_keyphrases.val)

RECURSIVE CommaJoined(_)
\* the items of a list written one after the other with ", " between them
CommaJoined(list) ==
  IF Len(list) = 0 THEN ""
  ELSE IF Len(list) = 1 THEN list[1]
  ELSE CommaJoined(SubSeq(list, 1, Len(list) - 1)) \o ", " \o list[Len(list)]

\* the latest operation is prepare_seo_data on an engine of the given plugin
\* version
Prepared(version) ==
  seo_call.op = "prepare_seo_data" /\ seo_plugin_version(config) = version

(***************************************************************************)
(* C11: with the old (legacy) plugin version prepare_seo_data returns      *)
(* {"meta": {_aioseop_title: seo_title, _aioseop_description:              *)
(* meta_description}} and, when focus_keyphrase or additional_keyphrases   *)
(* is non-empty, adds _aioseop_keywords: the list [focus_keyphrase] +      *)
(* additional_keyphrases, in order and without the focus keyphrase when    *)
(* that is absent, joined by ", ".                                         *)
(***************************************************************************)
LegacyPayloadCarriesJoinedKeywords ==
  Prepared("old") =>
    /\ DOMAIN seo_call.result = {"meta"}
    /\ {"_aioseop_title", "_aioseop_description"} \subseteq DOMAIN seo_call.result["meta"]
    /\ DOMAIN seo_call.result["meta"]
         \subseteq {"_aioseop_title", "_aioseop_description", "_aioseop_keywords"}
    /\ seo_call.result["meta"]["_aioseop_title"] = seo_call.seo_title
    /\ seo_call.result["meta"]["_aioseop_description"] = seo_call.meta_description
    /\ (~Absent(seo_call.focus_keyphrase) \/ ~Absent(seo_call.additional_keyphrases)) =>
         /\ "_aioseop_keywords" \in DOMAIN seo_call.result["meta"]
         /\ seo_call.result["meta"]["_aioseop_keywords"] = CommaJoined(KeywordList(seo_call))

\* the old payload of a call with a focus keyphrase and two additional ones
LegacyPayloadOfThreeKeyphrases ==
  /\ Prepared("old")
  /\ seo_call.focus_keyphrase = Some("test keyphrase")
  /\ seo_call.additional_keyphrases = Some(<<"additional1", "additional2">>)
  /\ seo_call.result["meta"]["_aioseop_keywords"] = "test keyphrase, additional1, additional2"

(***************************************************************************)
(* C12: when neither a focus keyphrase nor additional keyphrases are       *)
(* given, prepare_seo_data leaves the keyword fields out altogether: the   *)
(* old payload has no _aioseop_keywords, the new payload has neither       *)
(* focus_keyphrase nor keyphrases.                                         *)
(***************************************************************************)
NoKeyphrasesNoKeywordFields ==
  (/\ seo_call.op = "prepare_seo_data"
   /\ Absent(seo_call.focus_keyphrase)
   /\ Absent(seo_call.additional_keyphrases)) =>
    /\ Prepared("old") =>
         "_aioseop_keywords" \notin DOMAIN seo_call.result["meta"]
    /\ Prepared("new") =>
         {"focus_keyphrase", "keyphrases"} \cap DOMAIN seo_call.result["aioseo_meta_data"] = {}

\* both shapes have been prepared from a title and a description alone, an
\* empty focus keyphrase and an empty list included
MinimalPayloadPrepared ==
  /\ seo_call.op = "prepare_seo_data"
  /\ seo_call.focus_keyphrase \in {None, Some("")}
  /\ seo_call.additional_keyphrases \in {None, Some(<< >>)}
  /\ \/ Prepared("old") /\ seo_call.focus_keyphrase = Some("")
          /\ DOMAIN seo_call.result["meta"] = {"_aioseop_title", "_aioseop_description"}
     \/ Prepared("new") /\ seo_call.additional_keyphrases = Some(<< >>)
          /\ DOMAIN seo_call.result["aioseo_meta_data"] = {"title", "description"}

\* the list of {"keyphrase": kp} objects of a list of keyphrases, in order
KeyphraseObjects(list) == [i \in DOMAIN list |-> [keyphrase |-> list[i]]]

(***************************************************************************)
(* C13: with the new (modern) plugin version and a focus keyphrase,        *)
(* prepare_seo_data returns {"aioseo_meta_data": {title, description,      *)
(* focus_keyphrase, keyphrases}} where keyphrases.focus is {"keyphrase":   *)
(* focus_keyphrase} and keyphrases.additional is the list of {"keyphrase": *)
(* kp} objects of the additional keyphrases in input order, the empty list *)
(* when none are given.                                                    *)
(***************************************************************************)
ModernPayloadCarriesKeyphraseStructure ==
  (Prepared("new") /\ ~Absent(seo_call.focus_keyphrase)) =>
    /\ DOMAIN seo_call.result = {"aioseo_meta_data"}
    /\ DOMAIN seo_call.result["aioseo_meta_data"]
         = {"title", "description", "focus_keyphrase", "keyphrases"}
    /\ seo_call.result["aioseo_meta_data"]["title"] = seo_call.seo_title
    /\ seo_call.result["aioseo_meta_data"]["description"] = seo_call.meta_description
    /\ seo_call.result["aioseo_meta_data"]["focus_keyphrase"] = seo_call.focus_keyphrase.val
    /\ DOMAIN seo_call.result["aioseo_meta_data"]["keyphrases"] = {"focus", "additional"}
    /\ seo_call.result["aioseo_meta_data"]["keyphrases"]["focus"]
         = [keyphrase |-> seo_call.focus_keyphrase.val]
    /\ seo_call.result["aioseo_meta_data"]["keyphrases"]["additional"]
         = (IF Absent(seo_call.additional_keyphrases) THEN << >>
            ELSE KeyphraseObjects(seo_call.additional_keyphrases.val))

\* the new payload of a call with a focus keyphrase and two different
\* additional keyphrases, the second of the set first
ModernPayloadOfOrderedKeyphrases ==
  /\ Prepared("new")
  /\ seo_call.focus_keyphrase = Some("test keyphrase")
  /\ seo_call.additional_keyphrases = Some(<<"additional2", "additional1">>)
  /\ seo_call.result["aioseo_meta_data"]["keyphrases"]["additional"]
       = <<[keyphrase |-> "additional2"], [keyphrase |-> "additional1"]>>

(***************************************************************************)
(* C14: with the new (modern) plugin version, additional keyphrases given  *)
(* without a focus keyphrase add neither focus_keyphrase nor keyphrases:   *)
(* the payload holds title and description only; the old (legacy) shape    *)
(* writes the keywords string for the same inputs.                         *)
(***************************************************************************)
AdditionalWithoutFocusOnlyInLegacy ==
  (/\ seo_call.op = "prepare_seo_data"
   /\ Absent(seo_call.focus_keyphrase)
   /\ ~Absent(seo_call.additional_keyphrases)) =>
    /\ Prepared("new") =>
         DOMAIN seo_call.result["aioseo_meta_data"] = {"title", "description"}
    /\ Prepared("old") =>
         /\ "_aioseop_keywords" \in DOMAIN seo_call.result["meta"]
         /\ seo_call.result["meta"]["_aioseop_keywords"]
              = CommaJoined(seo_call.additional_keyphrases.val)

\* the new payload of a call with two additional keyphrases and no focus
\* keyphrase
ModernPayloadWithoutFocusPrepared ==
  /\ Prepared("new")
  /\ seo_call.focus_keyphrase = None
  /\ seo_call.additional_keyphrases = Some(<<"additional1", "additional2">>)
  /\ seo_call.result
       = [aioseo_meta_data |->
            [title |-> seo_call.seo_title, description |-> seo_call.meta_description]]

\* the root key of the SEO payload of a plugin version
RootKeyOf(version) == IF version = "old" THEN "meta" ELSE "aioseo_meta_data"

\* the latest operation is post_to_wordpress_with_seo on an engine whose
\* seo_plugin_version is one of the two versions
Published ==
  /\ seo_call.op = "post_to_wordpress_with_seo"
  /\ seo_plugin_version(config) \in {"old", "new"}

(***************************************************************************)
(* C15: the two metadata shapes are never mixed.  Every SEO payload        *)
(* prepare_seo_data returns, and every SEO payload post_to_wordpress_with_ *)
(* seo sends (PUT) for the created post, has a single root key: "meta"     *)
(* when seo_plugin_version is old, "aioseo_meta_data" when it is new; so   *)
(* no payload sent under old holds "aioseo_meta_data".                     *)
(***************************************************************************)
SeoPayloadsHaveTheRootOfTheVersion ==
  /\ seo_call.op = "prepare_seo_data"
       => DOMAIN seo_call.result = {RootKeyOf(seo_plugin_version(config))}
  /\ Published
       => \A i \in DOMAIN seo_call.result.sent :
            seo_call.result.sent[i].method = "PUT"
              => DOMAIN seo_call.result.sent[i].json
                   = {RootKeyOf(seo_plugin_version(config))}

\* key is missing from the config, or empty
MissingOrEmpty(key) == key \notin DOMAIN config \/ config[key] = ""

\* the latest operation is validate_seo_configuration
Validated == seo_call.op = "validate_seo_configuration"

Updated == seo_call.op = "update_seo_metadata_with_retry"

\* the attempts before attempt k of the latest call all time out
TimeoutsBefore(k) == \A j \in 1..(k - 1) : seo_call.answers[j] = "timeout"

(***************************************************************************)
(* C17: update_seo_metadata_with_retry makes attempts one after another    *)
(* until one succeeds or max_retries attempts have been made: when the     *)
(* first k-1 attempts time out and attempt k <= max_retries succeeds it    *)
(* returns true after exactly k attempts; when every attempt times out it  *)
(* returns false after exactly max_retries attempts; it never makes more   *)
(* than max_retries attempts.                                              *)
(***************************************************************************)
RetriesTimeoutsUpToMaxRetries ==
  Updated =>
    /\ \A k \in 1..seo_call.max_retries :
         TimeoutsBefore(k) /\ seo_call.answers[k] = "success"
           => seo_call.outcome = [result |-> TRUE, attempts |-> k]
    /\ TimeoutsBefore(seo_call.max_retries + 1)
         => seo_call.outcome = [result |-> FALSE, attempts |-> seo_call.max_retries]
    /\ seo_call.outcome.attempts <= seo_call.max_retries

\* a call with max_retries 3 has met two timeouts and succeeded on its third
\* attempt
SucceededOnThirdAttempt ==
  /\ Updated
  /\ seo_call.max_retries = 3
  /\ seo_call.answers[1] = "timeout"
  /\ seo_call.answers[2] = "timeout"
  /\ seo_call.answers[3] = "success"
  /\ seo_call.outcome = [result |-> TRUE, attempts |-> 3]

WordPressRequests ==
  {i \in DOMAIN seo_call.result.sent : seo_call.result.sent[i] # GeminiRequest}

\* the configured seo_plugin_version is neither 'old' nor 'new'
InvalidVersionConfigured ==
  /\ "seo_plugin_version" \in DOMAIN config
  /\ config["seo_plugin_version"] \notin {"old", "new"}

(***************************************************************************)
(* C19: the configuration gate runs before any publish attempt: when       *)
(* seo_plugin_version is invalid or wp_base_url, wp_username or            *)
(* wp_password is missing or empty, post_to_wordpress_with_seo sends no    *)
(* request to WordPress and reports failure (None, None).                  *)
(***************************************************************************)
NoRequestPastTheConfigurationGate ==
  /\ seo_call.op = "post_to_wordpress_with_seo"
  /\ \/ InvalidVersionConfigured
     \/ MissingOrEmpty("wp_base_url")
     \/ MissingOrEmpty("wp_username")
     \/ MissingOrEmpty("wp_password")
  => /\ WordPressRequests = {}
     /\ seo_call.result.post_id = None
     /\ seo_call.result.title = None

\* the latest operation is generate_seo_title_and_meta
Generated == seo_call.op = "generate_seo_title_and_meta"

\* the candidate title of the latest generate_seo_title_and_meta: the title
\* read from the API's answer on API success, the article title otherwise
CandidateTitle ==
  IF seo_call.sent = << >> \/ seo_call.api.none THEN seo_call.title
  ELSE match_seo(Strip(seo_call.api.val))

\* result is candidate cut at the end of one of its words
EndsOnAWordOf(result, candidate) ==
  /\ Len(result) <= Len(candidate)
  /\ Slice(candidate, 1, Len(result)) = result
  /\ Len(result) > 0 => Slice(result, Len(result), Len(result)) # " "
  /\ Len(result) < Len(candidate)
       => Slice(candidate, Len(result) + 1, Len(result) + 1) = " "

(***************************************************************************)
(* C20: the SEO title generate_seo_title_and_meta returns is never longer  *)
(* than 59 characters and, when the candidate title is longer than 59      *)
(* characters, it is the candidate cut at the end of a complete word; on   *)
(* every path: API success, no API key, API failure.                       *)
(***************************************************************************)
SeoTitleFitsOnAWordBoundary ==
  Generated =>
    /\ Len(seo_call.result.seo_title) <= 59
    /\ Len(CandidateTitle) > 59
         => EndsOnAWordOf(seo_call.result.seo_title, CandidateTitle)

\* the latest operation is post_to_wordpress_with_seo
PublishCalled == seo_call.op = "post_to_wordpress_with_seo"

\* the requests of the latest publish call, by position
Sent == seo_call.result.sent

\* the positions of the SEO update requests among the requests sent
SeoUpdates == {i \in DOMAIN Sent : Sent[i].method = "PUT"}

\* the positions of the post creation request among the requests sent
PostCreations ==
  {i \in DOMAIN Sent : /\ Sent[i].method = "POST"
                       /\ Sent[i].url = Get(config, "wp_base_url", "") \o "/posts"}

\* the URL of the created post
CreatedPostUrl == Get(config, "wp_base_url", "") \o "/posts/" \o ToString(PostId)

\* every SEO update follows a post creation that returned an id and goes to
\* the URL of the created post; without an id there is no SEO update and
\* the call returns (None, None)
SeoUpdatesFollowTheCreatedPost ==
  /\ \A i \in SeoUpdates :
       /\ seo_call.env.post = "created"
       /\ \E j \in PostCreations : j < i
       /\ Sent[i].url = CreatedPostUrl
  /\ PostCreations # {} /\ seo_call.env.post # "created"
       => /\ SeoUpdates = {}
          /\ seo_call.result.post_id = None
          /\ seo_call.result.title = None

RequestsTo(url) == {i \in DOMAIN Sent : Sent[i].url = url}

\* the answers of a sequence of category or tag outcomes that are a 401
Refused(outcomes) ==
  {i \in DOMAIN outcomes : outcomes[i] \in {"unauthorized", "create_unauthorized"}}

RECURSIVE RequestsThrough(_, _)
\* the number of requests made for the first k categories or tags: a search
\* each, and a creation after a search that found nothing
RequestsThrough(outcomes, k) ==
  IF k = 0 THEN 0
  ELSE RequestsThrough(outcomes, k - 1)
         + (IF outcomes[k] \in {"created", "create_unauthorized"} THEN 2 ELSE 1)

\* a 401 among the answers outcomes for the categories or tags at url ends
\* the call: the refused request is the last request sent, no post is
\* created and (None, None) is returned
RefusalEndsTheCall(url, outcomes) ==
  \A k \in Refused(outcomes) :
    (\A j \in Refused(outcomes) : k <= j)
      => /\ Cardinality(RequestsTo(url)) = RequestsThrough(outcomes, k)
         /\ Sent[Len(Sent)].url = url
         /\ PostCreations = {}
         /\ seo_call.result.post_id = None
         /\ seo_call.result.title = None

\* a 401 for a category ends the call at once
CategoryRefusalEndsTheCall ==
  PublishCalled /\ credentials_configured(config)
    => RefusalEndsTheCall(Get(config, "wp_base_url", "") \o "/categories",
                          seo_call.env.categories)

(***************************************************************************)
(* C25: an authentication failure is surfaced at once during publishing:   *)
(* when a category lookup or creation answers 401 the call returns         *)
(* (None, None) immediately, makes no further category or tag request and  *)
(* creates no post; the same holds for a 401 during tag resolution.        *)
(***************************************************************************)
AuthenticationFailureEndsTheCall ==
  /\ CategoryRefusalEndsTheCall
  /\ PublishCalled /\ credentials_configured(config) /\ Refused(seo_call.env.categories) = {}
       => RefusalEndsTheCall(Get(config, "wp_base_url", "") \o "/tags", seo_call.env.tags)

(***************************************************************************)
(* C26: a failed SEO metadata update never turns a successful post         *)
(* creation into a failed publish: once the post creation request has      *)
(* returned an id, post_to_wordpress_with_seo returns that id whatever the *)
(* outcome of the AIOSEO update, the Yoast fallback and the custom-fields   *)
(* fallback; and the post is always created with status draft.             *)
(***************************************************************************)
CreatedDraftIsReturnedWhateverTheSeoUpdate ==
  PublishCalled =>
    /\ \A i \in PostCreations : Sent[i].json.status = "draft"
    /\ PostCreations # {} /\ seo_call.env.post = "created"
         => seo_call.result.post_id = Some(PostId)

\* a post has been created as a draft, both its AIOSEO update and the
\* custom-fields fallback were sent after the first request raised, and its
\* id has been returned
DraftReturnedAfterFailedSeoUpdate ==
  /\ PublishCalled
  /\ seo_call.env.puts[1].none
  /\ Cardinality(SeoUpdates) = 2
  /\ \E i \in PostCreations : Sent[i].json.status = "draft"
  /\ seo_call.result.post_id = Some(PostId)


\* text with the tags of anchor removed where anchor first stands in it: the
\* anchor gives way to its visible text
WithoutAnchor(text, anchor) ==
  Slice(text, 1, IndexFrom(text, anchor, 1) - 1) \o AnchorText(anchor)
    \o Slice(text, IndexFrom(text, anchor, 1) + Len(anchor), Len(text))

RECURSIVE WithoutAnchors(_, _)
\* text with the tags of the inserted anchors removed, the latest inserted
\* first
WithoutAnchors(text, anchors) ==
  IF anchors = << >> THEN text
  ELSE WithoutAnchors(WithoutAnchor(text, anchors[Len(anchors)]),
                      SubSeq(anchors, 1, Len(anchors) - 1))

(***************************************************************************)
(* C24: injection only adds anchor tags around matched text: for every     *)
(* content and link table, removing from the output of                     *)
(* inject_internal_links or inject_external_links the opening and closing  *)
(* tags of the anchors that call inserted yields the input content, with   *)
(* all segments in their original order.                                   *)
(***************************************************************************)
RemovingInsertedTagsYieldsTheInput ==
  last.op \in {"internal", "external"}
    => WithoutAnchors(last.result, last.anchors) = last.content

\* a call that inserted two anchors into a content with a heading
TwoAnchorsInsertedAroundAHeading ==
  /\ last.op \in {"internal", "external"}
  /\ Len(last.anchors) >= 2
  /\ CallBlocks # {}
  /\ last.result # last.content


(***************************************************************************)
(* process_single_article, from the engine's operations.  The web page,    *)
(* the Gemini API and WordPress are the environment: env says whether the  *)
(* Selenium driver started, what was extracted, what the rewrite gave,     *)
(* the categories and tags found, and how the publish call is answered.    *)
(* No featured image is selected (step 7 is skipped).                      *)
(***************************************************************************)
\* final_content with the external pass fed the rewritten content
final_content_of_rewrite(internal_links, external_links, paraphrased_content) ==
  inject_external_links(external_links, paraphrased_content).result

\* internal_linked = inject_internal_links(paraphrased_content);
\* final_content = inject_external_links(internal_linked)
final_content(internal_links, external_links, paraphrased_content) ==
  inject_external_links(
    external_links,
    inject_internal_links(internal_links, paraphrased_content).result).result

\* the record of an article that went through the publish call: posted is
\* what post_to_wordpress_with_seo returned
article_posted(env, seo, posted) ==
  [steps |-> <<"extract", "rewrite", "internal_links", "external_links", "seo",
               "keyphrases", "categories", "tags", "publish">>
               \o (IF posted.post_id.none THEN << >> ELSE <<"finalize">>),
   paraphrased_title |-> env.paraphrased_title,
   paraphrased_content |-> env.paraphrased_content,
   seo |-> seo,
   sent |-> posted.sent,
   success |-> ~posted.post_id.none]

\* steps 6 to 11 of process_single_article: seo is what
\* generate_seo_title_and_meta gave for final_content = content
article_published(cfg, env, content, seo) ==
  article_posted(
    env, seo,
    post_to_wordpress_with_seo(
      cfg,
      [title |-> env.paraphrased_title,
       content |-> content,
       categories |-> env.categories,
       tags |-> env.tags,
       seo_title |-> Some(seo.seo_title),
       meta_description |-> Some(seo.meta_description),
       focus_keyphrase |-> Some(env.wordpress.extracted.focus_keyphrase),
       additional_keyphrases |-> Some(env.wordpress.extracted.additional_keyphrases)],
      env.wordpress))

\* steps 5 to 11 of process_single_article for final_content = content
article_linked(cfg, env, content) ==
  article_published(
    cfg, env, content,
    generate_seo_title_and_meta(cfg, env.paraphrased_title, content, env.wordpress.api))

\* process_single_article(article_url) under the tables and config given
process_single_article(cfg, internal_links, external_links, env) ==
  IF ~env.driver \/ env.title = "" \/ env.content = ""
  THEN [NoArticle EXCEPT !.steps = <<"extract">>]
  ELSE article_linked(
         cfg, env,
         final_content(internal_links, external_links, env.paraphrased_content))

(***************************************************************************)
(* The automation tab: start_automation, stop_automation and the thread    *)
(* of run_automation.                                                      *)
(***************************************************************************)
\* has_valid_credentials
has_valid_credentials(cfg) ==
  \A field \in {"wp_base_url", "wp_username", "wp_password", "gemini_api_key"} :
    Get(cfg, field, "") # ""

\* automation_completed: the buttons are set back; is_running is not written
automation_completed(g) == [g EXCEPT !.start_btn = TRUE, !.stop_btn = FALSE]

\* the article URLs the source page may list
ArticleUrls == {"https://source.example/a", "https://source.example/b"}

MaxLinks == 2

\* what get_article_links may return: the lists of at most MaxLinks URLs
LinkLists == UNION {[1..n -> ArticleUrls] : n \in 0..MaxLinks}

\* the environments of process_single_article: all goes well for a content
\* both passes link in, or one step fails
ArticleEnvs ==
  LET calm == [driver |-> TRUE,
               title |-> "Test Post",
               content |-> "<p>Test content</p>",
               paraphrased_title |-> "Test Post",
               paraphrased_content |->
                 "<h3>Spurs</h3>Tottenham stats",
               categories |-> <<"Test Category", "News">>,
               tags |-> <<"test-tag", "football">>,
               wordpress |-> CalmEnv]
  IN  { calm,
        [calm EXCEPT !.driver = FALSE],
        [calm EXCEPT !.title = ""],
        [calm EXCEPT !.content = ""],
        [calm EXCEPT !.wordpress = [CalmEnv EXCEPT !.post = "error"]] }

\* the window has been built over a config file with or without credentials
\* and a posted_links.json of earlier runs
RunInit ==
  /\ INTERNAL_LINKS = DefaultInternalLinks
  /\ EXTERNAL_LINKS = DefaultExternalLinks
  /\ last = NoCall
  /\ prev = NoCall
  /\ config \in {DefaultConfig}
                  \cup {c \in EngineConfigs :
                          has_valid_credentials(c) /\ "seo_plugin_version" \notin DOMAIN c}
  /\ seo_call = NoSeoCall
  /\ gui = NewGui
  /\ run = NoRun
  /\ handed = << >>
  /\ article = NoArticle
  /\ posted_links_file \in SUBSET ArticleUrls
  /\ calls = NoCalls

\* start_automation (the Start button): refused while is_running, without
\* an engine and credentials, or without a positive max_articles; otherwise
\* the counters are reset and the thread of run_automation is started
StartAutomation ==
  /\ gui.start_btn
  /\ IF gui.is_running
     THEN /\ gui' = [gui EXCEPT !.shown = "Automation is already running"]
          /\ UNCHANGED run
     ELSE IF ~gui.automation_engine /\ ~has_valid_credentials(config)
     THEN /\ gui' = [gui EXCEPT !.shown = "Please login first in the Authentication tab"]
          /\ UNCHANGED run
     ELSE IF gui.max_articles_var <= 0
     THEN /\ gui' = [gui EXCEPT !.automation_engine = TRUE,
                                !.shown = "Please set a valid number of articles"]
          /\ UNCHANGED run
     ELSE /\ gui' = [gui EXCEPT !.automation_engine = TRUE,
                                !.start_btn = FALSE,
                                !.stop_btn = TRUE,
                                !.processed_count = 0,
                                !.stop_requested = FALSE,
                                !.is_running = TRUE]
          /\ run' = [NoRun EXCEPT !.pc = "started"]
  /\ UNCHANGED <<handed, article, posted_links_file>>
  /\ UNCHANGED linkVars
  /\ UNCHANGED seoVars

\* stop_automation (the Stop button)
StopAutomation ==
  /\ gui.stop_btn
  /\ gui' = [gui EXCEPT !.stop_requested = TRUE, !.start_btn = TRUE, !.stop_btn = FALSE]
  /\ UNCHANGED <<run, handed, article, posted_links_file>>
  /\ UNCHANGED linkVars
  /\ UNCHANGED seoVars

\* the Force Processing checkbox, followed until run_automation has read it
ToggleForceProcessing ==
  /\ run.pc \in {"none", "started"}
  /\ gui' = [gui EXCEPT !.force_processing_var = ~@]
  /\ UNCHANGED <<run, handed, article, posted_links_file>>
  /\ UNCHANGED linkVars
  /\ UNCHANGED seoVars

\* run_automation up to the loop: get_article_links returned article_links
FetchArticleLinks(article_links) ==
  /\ run.pc = "started"
  /\ LET force_processing == gui.force_processing_var
         posted_links == IF force_processing THEN {} ELSE posted_links_file
         new_articles == SelectSeq(article_links, LAMBDA link : link \notin posted_links)
         process_links == IF force_processing THEN article_links ELSE new_articles
     IN  IF article_links = << >> \/ (new_articles = << >> /\ ~force_processing)
         THEN /\ run' = [run EXCEPT !.pc = "completed", !.article_links = article_links]
              /\ gui' = automation_completed(gui)
         ELSE /\ run' = [pc |-> "loop",
                         article_links |-> article_links,
                         process_links |-> process_links,
                         loaded |-> posted_links,
                         posted_links |-> posted_links,
                         force_processing |-> force_processing,
                         i |-> 0]
              /\ gui' = [gui EXCEPT !.total_articles =
                           IF Len(process_links) < gui.max_articles_var
                           THEN Len(process_links) ELSE gui.max_articles_var]
  /\ UNCHANGED <<handed, article, posted_links_file>>
  /\ UNCHANGED linkVars
  /\ UNCHANGED seoVars

\* (a variant of the top of the loop that does not read stop_requested)
LoopCheckIgnoringStop ==
  /\ run.pc = "loop"
  /\ IF \/ run.i >= Len(run.process_links)
        \/ run.i >= gui.max_articles_var
     THEN /\ run' = [run EXCEPT !.pc = "completed"]
          /\ gui' = automation_completed(gui)
     ELSE IF run.process_links[run.i + 1] \in run.posted_links /\ ~run.force_processing
     THEN /\ run' = [run EXCEPT !.i = @ + 1]
          /\ UNCHANGED gui
     ELSE /\ run' = [run EXCEPT !.pc = "checked"]
          /\ UNCHANGED gui
  /\ article' = NoArticle
  /\ UNCHANGED <<handed, posted_links_file>>
  /\ UNCHANGED linkVars
  /\ UNCHANGED seoVars

\* the top of the loop for process_links[i]: the loop is left when the list
\* is exhausted, stop_requested is set or i has reached max_articles_var, and
\* automation_completed is called; a posted link is skipped.  The locals of
\* the process_single_article that has returned are gone
LoopCheck ==
  /\ run.pc = "loop"
  /\ IF \/ run.i >= Len(run.process_links)
        \/ gui.stop_requested
        \/ run.i >= gui.max_articles_var
     THEN /\ run' = [run EXCEPT !.pc = "completed"]
          /\ gui' = automation_completed(gui)
     ELSE IF run.process_links[run.i + 1] \in run.posted_links /\ ~run.force_processing
     THEN /\ run' = [run EXCEPT !.i = @ + 1]
          /\ UNCHANGED gui
     ELSE /\ run' = [run EXCEPT !.pc = "checked"]
          /\ UNCHANGED gui
  /\ article' = NoArticle
  /\ UNCHANGED <<handed, posted_links_file>>
  /\ UNCHANGED linkVars
  /\ UNCHANGED seoVars

\* the call self.process_single_article(link) is made: the link is handed
\* over, with what stop_requested and the posted links were at that moment
BeginArticle ==
  /\ run.pc = "checked"
  /\ run' = [run EXCEPT !.pc = "processing"]
  /\ handed' = Append(handed, [link |-> run.process_links[run.i + 1],
                               stop_requested |-> gui.stop_requested,
                               posted |-> run.process_links[run.i + 1] \in run.posted_links,
                               returned |-> "nothing"])
  /\ UNCHANGED <<gui, article, posted_links_file>>
  /\ UNCHANGED linkVars
  /\ UNCHANGED seoVars

\* (a variant that records the link whatever process_single_article returned)
ProcessSingleArticleRecorded(env) ==
  /\ run.pc = "processing"
  /\ article' = process_single_article(config, INTERNAL_LINKS, EXTERNAL_LINKS, env)
  /\ gui' = IF article'.success THEN [gui EXCEPT !.processed_count = @ + 1] ELSE gui
  /\ run' = [run EXCEPT !.pc = "loop",
                        !.i = @ + 1,
                        !.posted_links = @ \cup {run.process_links[run.i + 1]}]
  /\ posted_links_file' = run'.posted_links
  /\ handed' = [handed EXCEPT ![Len(handed)].returned =
                  IF article'.success THEN "success" ELSE "failure"]
  /\ UNCHANGED linkVars
  /\ UNCHANGED seoVars

\* process_single_article returns and the rest of the iteration runs: on
\* success the count is raised and the link is added to posted_links, which
\* is saved over posted_links.json
ProcessSingleArticle(env) ==
  /\ run.pc = "processing"
  /\ article' = process_single_article(config, INTERNAL_LINKS, EXTERNAL_LINKS, env)
  /\ gui' = IF article'.success THEN [gui EXCEPT !.processed_count = @ + 1] ELSE gui
  /\ run' = [run EXCEPT !.pc = "loop",
                        !.i = @ + 1,
                        !.posted_links =
                          IF article'.success
                          THEN @ \cup {run.process_links[run.i + 1]} ELSE @]
  /\ posted_links_file' = IF article'.success THEN run'.posted_links ELSE posted_links_file
  /\ handed' = [handed EXCEPT ![Len(handed)].returned =
                  IF article'.success THEN "success" ELSE "failure"]
  /\ UNCHANGED linkVars
  /\ UNCHANGED seoVars

RunNext ==
  \/ StartAutomation
  \/ StopAutomation
  \/ ToggleForceProcessing
  \/ \E cfg \in Configurations : SaveConfiguration(cfg)
  \/ \E article_links \in LinkLists : FetchArticleLinks(article_links)
  \/ LoopCheck
  \/ BeginArticle
  \/ \E env \in ArticleEnvs : ProcessSingleArticle(env)

RunSpec == RunInit /\ [][RunNext]_vars


(***************************************************************************)
(* Measures over the run used by the properties.                           *)
(***************************************************************************)
\* the steps of process_single_article in their order
StepOrder ==
  <<"extract", "rewrite", "internal_links", "external_links", "seo",
    "keyphrases", "categories", "tags", "publish", "finalize">>

\* the rewritten content of the article after the internal pass and then the
\* external pass, under the tables of the engine
BothPasses ==
  inject_external_links(
    EXTERNAL_LINKS,
    inject_internal_links(INTERNAL_LINKS, article.paraphrased_content).result).result

\* the positions of the post creation request among the requests the
\* article's publish call sent
ArticlePosts ==
  {n \in DOMAIN article.sent :
     /\ article.sent[n].method = "POST"
     /\ article.sent[n].url = Get(config, "wp_base_url", "") \o "/posts"}

\* process_single_article has just returned
ArticleReturned == article.steps # << >>

(***************************************************************************)
(* C21: process_single_article runs its steps in the fixed order extract,  *)
(* rewrite, internal link pass, external link pass, SEO metadata, publish: *)
(* the external pass receives the output of the internal pass, the SEO     *)
(* metadata and the published post are built from the content after both   *)
(* passes, and when extraction or post creation fails no later step runs   *)
(* and the article is reported as failed.                                  *)
(***************************************************************************)
ArticleStepsRunInOrder ==
  ArticleReturned
    => /\ article.steps = SubSeq(StepOrder, 1, Len(article.steps))
       /\ article.success <=> article.steps = StepOrder
       /\ handed[Len(handed)].returned = IF article.success THEN "success" ELSE "failure"
       /\ Len(article.steps) < 9 => article.steps = <<"extract">> /\ article.sent = << >>
       /\ Len(article.steps) >= 9
            => /\ ArticlePosts # {}
               /\ \A n \in ArticlePosts :
                    /\ article.sent[n].json.content = BothPasses
                    /\ article.sent[n].json.metadesc = article.seo.meta_description
               /\ article.seo = generate_seo_title_and_meta(
                                  config, article.paraphrased_title, BothPasses, CalmEnv.api)

\* an article was published whose content both passes had linked in
ArticlePublishedWithBothKindsOfLinks ==
  /\ article.success
  /\ \E n \in ArticlePosts :
       /\ Occurrences(article.sent[n].json.content, "target=\"_blank\"") # {}
       /\ Occurrences(article.sent[n].json.content, "<a href=\"https://premierleaguenewsnow.com") # {}


\* the links process_single_article has returned success for
Succeeded == {handed[n].link : n \in {k \in DOMAIN handed : handed[k].returned = "success"}}

\* the links process_single_article has returned failure for
Failed == {handed[n].link : n \in {k \in DOMAIN handed : handed[k].returned = "failure"}}

(***************************************************************************)
(* C27: with force processing off, run_automation never processes an       *)
(* article URL that is in the posted-links set, and a URL enters the       *)
(* posted-links set, which is then saved to posted_links.json, only after  *)
(* process_single_article returned success for it; a URL whose processing  *)
(* failed is never recorded, so it stays eligible for a later run.         *)
(***************************************************************************)
PostedLinksGrowOnlyBySuccess ==
  ~run.force_processing /\ run.process_links # << >>
    => /\ \A n \in DOMAIN handed : ~handed[n].posted
       /\ run.posted_links = run.loaded \cup Succeeded
       /\ posted_links_file = run.posted_links
       /\ \A link \in Failed \ Succeeded : link \notin posted_links_file \ run.loaded

\* a run with force processing off in which one article failed and another
\* was posted: only the second is in posted_links.json
FailedArticleLeftOutOfPostedLinks ==
  /\ ~run.force_processing
  /\ \E link \in Failed \ Succeeded : link \notin posted_links_file
  /\ \E link \in Succeeded : link \in posted_links_file \ run.loaded


(***************************************************************************)
(* C28: in any run of run_automation, the number of articles handed to     *)
(* process_single_article, and therefore processed_count, never exceeds    *)
(* max_articles, and processed_count never exceeds total_articles.         *)
(* total_articles is the smaller of the number of links to process and     *)
(* max_articles, so neither count may exceed it.                           *)
(***************************************************************************)
HandedAndProcessedWithinTheLimits ==
  run.process_links # << >>
    => /\ Len(handed) <= gui.total_articles
       /\ gui.processed_count <= gui.total_articles


\* the articles whose call of process_single_article was made with
\* stop_requested set, by position
StartedAfterStop == {n \in DOMAIN handed : handed[n].stop_requested}

(***************************************************************************)
(* C29, as stated: after stop_automation has set stop_requested the worker *)
(* starts no further article, that is no call of process_single_article is *)
(* made with stop_requested set.                                           *)
(***************************************************************************)
NoArticleStartsAfterStop == StartedAfterStop = {}

(***************************************************************************)
(* C29, amended: after stop_automation has set stop_requested no further   *)
(* article passes the check at the top of the loop.  At most the article   *)
(* whose iteration had passed that check is processed: an article started  *)
(* after the stop is the last one handed over, and the next time the       *)
(* worker is at the top of the loop it leaves the loop and calls            *)
(* automation_completed.                                                   *)
(***************************************************************************)
StopEndsTheLoopAtItsNextCheck ==
  /\ [](\A n \in StartedAfterStop : n = Len(handed))
  /\ [][gui.stop_requested /\ run.pc = "loop" /\ run' # run
          => run'.pc = "completed" /\ gui'.start_btn /\ ~gui'.stop_btn]_vars

\* the stop came between the check and the call: the article was processed,
\* posted and recorded, and the run ended with the rest of the list left
ArticleStartedAfterStopWasPosted ==
  /\ run.pc = "completed"
  /\ run.i < Len(run.process_links)
  /\ run.i < gui.max_articles_var
  /\ StartedAfterStop # {}
  /\ handed[Len(handed)].returned = "success"
  /\ handed[Len(handed)].link \in posted_links_file


(***************************************************************************)
(* C30: when a run has ended (automation_completed has been reached after  *)
(* normal completion, after an error, or after a stop request) is_running  *)
(* is false again, so that a later start_automation starts a new worker    *)
(* instead of being refused with "Automation is already running".          *)
(***************************************************************************)
RunEndClearsIsRunning == run.pc = "completed" => ~gui.is_running

\* while a worker is running start_automation starts no second one: a
\* thread is started only when none was started or the last one has ended
\* (this half of C30 holds)
NoSecondWorkerIsStarted ==
  [][run' # run /\ run'.pc = "started" => run.pc \in {"none", "completed"}]_vars

\* a start_automation after the run has ended was refused
StartRefusedAfterTheRunEnded ==
  /\ run.pc = "completed"
  /\ ~gui.stop_requested
  /\ gui.shown = "Automation is already running"

====
